---- MODULE Spec2Model ----
(***************************************************************************)
(* A model of the thread-state switching protocol (subinterp.c), the       *)
(* Delegate dispatcher (maininterp.c / delegate.c), the AsyncResult        *)
(* container and the interpreter teardown of the HexChat Python plugin.    *)
(*                                                                         *)
(* The embedded runtime is modelled by what the plugin can observe of it:  *)
(* who owns the global interpreter lock (gil), which thread state is the   *)
(* runtime's current one (cur), and the thread state each thread saved     *)
(* when it released the lock (saved).                                      *)
(***************************************************************************)
EXTENDS Integers, Sequences, FiniteSets, TLC

\* ------------------------------------------------------------------ bounds
MaxDepth == 1    \* switch_threadstate frames a thread may have open in Spec
MaxNest  == 3    \* switch_threadstate frames open in the sequential SpecNest
MaxCalls == 2    \* Delegate_call invocations in one behaviour

\* The unload callbacks and the hooks a plugin registers.
MaxUnload == 2
MaxCount == 2    \* hexchat_unhook calls of one handle that are told apart
MaxHooks  == 1
MaxBuf == 3      \* lines in the console's scriptbuf when a call begins

\* The objects a behaviour may allocate, and the keyword arguments of a call.
MaxObjs == 22
MaxKw   == 2

\* ------------------------------------------------------- threads, contexts
Main     == "main"
Workers  == {"w1", "w2"}
Threads  == {Main} \cup Workers
NoThread == "none"
NULL     == "NULL"

\* py_g_main_threadstate, and the main thread state of a loaded plugin.
MainTS   == "mts"
PluginTS == {"p1"}
Contexts == {MainTS} \cup PluginTS

\* The thread state a script-created worker thread runs its own code in.
WorkerTS(t) == IF t = "w1" THEN "tw1" ELSE "tw2"

\* The thread states an InterpCall object can be bound to: InterpCall_init()
\* takes PyThreadState_Get() of the thread that constructs the object, so
\* an object made by a running worker is bound to the worker's thread state.
ThreadStates == Contexts \cup {WorkerTS(w) : w \in Workers}

\* The thread state PyGILState_Ensure() finds for the calling OS thread.
AutoTS(t) == IF t = Main THEN MainTS ELSE WorkerTS(t)

\* ts->thread_id: the OS thread that created the thread state.  The plugins'
\* interpreters are created on the host main thread (create_interp).
ThreadIdOf(ts) == IF ts \in Contexts THEN Main
                  ELSE IF ts = "tw1" THEN "w1" ELSE "w2"

\* interp_get_main_threadstate() evaluated with ts current: the main thread
\* state of the interpreter ts belongs to.  Both workers are threads of p1.
HomeOf(ts) == IF ts \in Contexts THEN ts ELSE "p1"

VARIABLES
    gil,              \* owner of the global interpreter lock, or NoThread
    cur,              \* the runtime's current thread state, or NULL
    py_main_has_gil,  \* subinterp.c: static int py_main_has_gil
    py_gilstate,      \* subinterp.c: static PyGILState_STATE py_gilstate
    pc,               \* per thread: where it is
    stack,            \* per thread: open switch_threadstate frames
    saved,            \* per thread: thread state saved when the lock was dropped
    wait,             \* per thread: the call a blocked Queue.get() waits for
    timers,           \* the host timer queue: call ids, in hand-in order
    calls,            \* one record per Delegate_call (DelegateData + caller)
    queue,            \* per call: the queue.Queue(1) result channel
    got,              \* per call: what a synchronous caller was returned
    ares,             \* per call: the AsyncResult object's fields
    execLog,          \* history: every PyObject_Call of a Delegate's callable
    posted,           \* history: per call, the records put on its channel
    lastRead,         \* per thread: the last AsyncResult read it made
    interp,           \* per plugin: "active" or "destroyed"; "new" and
                      \* "failed" while create_interp() configures it
    before,           \* history, kept in SpecNest: the runtime state before
                      \* each open switch_threadstate() call
    hostCalls,        \* history: the host API functions called, and by whom
    readHist,         \* history, per call: the receives made on its channel
                      \* and what the last read of each field returned
    unload_hooks,     \* p1's HC_UNLOAD_KEY list: its unload-hook capsules
    hooks,            \* p1's HC_HOOKS_KEY list: its hook capsules; after the
                      \* store is released, the capsules the script still holds
    registered,       \* per unload-hook capsule: the callable it holds
    hookRefs,         \* per hook capsule: does the script keep the handle?
    hookData,         \* per hook capsule: its CallbackData
    cbret,            \* history: the last hook callback the host made, what
                      \* the Python callback gave back and what the host got
    del,              \* delete_interp(): its locals i and size
    tdlog,            \* history: the steps of p1's teardown, in order
    heap,             \* the Python objects, by address
    cache,            \* per proxy object: its self->cache dictionary
    pyerr,            \* per thread state: its pending exception
    op,               \* the proxy operation in progress: its C locals
    gets,             \* history: the first value each attribute read returned
    entry,            \* the function that waits for delete_interp(), if any
    plugin_list,      \* plugins.c: the linked list plugin_data, as a set
    console           \* console_interp_data: contmode and scriptbuf, and the
                      \* argument and result of exec_console_command()

vars == <<gil, cur, py_main_has_gil, py_gilstate, pc, stack, saved, wait,
          timers, calls, queue, got, ares, execLog, posted, lastRead, interp,
          before, hostCalls, readHist, unload_hooks, hooks, registered,
          hookRefs, hookData, cbret, del, tdlog, heap, cache, pyerr, op,
          gets, entry, plugin_list, console>>

runtimeVars  == <<gil, cur, py_main_has_gil, py_gilstate>>
delegateVars == <<timers, calls, queue, got, ares, execLog, posted, lastRead>>
histVars     == <<hostCalls, readHist>>
unloadVars   == <<unload_hooks, hooks, registered, hookRefs, hookData, cbret,
                   del, tdlog>>
proxyVars    == <<heap, cache, pyerr, op, gets>>
entryVars    == <<entry, plugin_list, console>>

\* ---------------------------------------------------------- python values
Val(t, v) == [t |-> t, v |-> v]
None      == Val("None", 0)

\* The callables a Delegate wraps in this model, and their arguments.
Callables == {"add", "raises", "get_context"}
ArgsOf(c) == IF c = "add" THEN {<<2, 3>>} ELSE {<<0, 0>>}

\* PyObject_Call(callable, args): status 0 and the return value, or status -1
\* and the normalized exception.
Apply(c, a) ==
    IF c = "add" THEN [status |-> 0, payload |-> Val("int", a[1] + a[2])]
    ELSE IF c = "raises" THEN [status |-> -1, payload |-> Val("ValueError", 0)]
    ELSE [status |-> 0, payload |-> Val("Context", 0)]

\* ------------------------------------------------------- python objects
\* An object: its type (kind), the interpreter it lives in or, for a proxy,
\* the thread state it is bound to (ts), the object a proxy wraps (ref), its
\* class under == (eq), whether it has a hash, and what a function does.
PyObj(kind, ts, ref, eq, hashable, beh) ==
    [kind |-> kind, ts |-> ts, ref |-> ref, eq |-> eq,
     hashable |-> hashable, beh |-> beh]

Plain(kind, ts, eq, hashable) == PyObj(kind, ts, 0, eq, hashable, "-")
Func(ts, eq, beh)             == PyObj("func", ts, 0, eq, TRUE, beh)

\* The objects at the start.  In the main interpreter: a namespace object,
\* its attribute values and three functions; in plugin p1: two tuples that
\* are equal, an InterpObjProxy of the namespace, a function, two objects,
\* a string, InterpCall objects of the three functions, and a
\* DelegateProxy.
Heap0 ==
    << Plain("obj", MainTS, 1, TRUE),              \* 1  the namespace
       Plain("int", MainTS, 2, TRUE),              \* 2  7
       Func(MainTS, 3, "make"),                    \* 3  returns object 4
       Plain("obj", MainTS, 4, TRUE),              \* 4  an object
       Plain("obj", MainTS, 5, FALSE),             \* 5  a list
       Plain("obj", "p1", 6, TRUE),                \* 6  p1's tuple
       Plain("obj", "p1", 6, TRUE),                \* 7  p1's equal tuple
       Func(MainTS, 8, "raises"),                  \* 8  raises E
       Func(MainTS, 9, "echo"),                    \* 9  returns its argument
       Plain("none", MainTS, 10, TRUE),            \* 10 None
       PyObj("oproxy", MainTS, 1, 11, TRUE, "-"),  \* 11 proxy of 1
       Func("p1", 12, "echo"),                     \* 12 p1's callback
       Plain("obj", "p1", 13, TRUE),               \* 13 p1's object
       Plain("str", "p1", 14, TRUE),               \* 14 "text"
       PyObj("icall", MainTS, 9, 15, TRUE, "-"),   \* 15 InterpCall of 9
       PyObj("icall", MainTS, 3, 16, TRUE, "-"),   \* 16 InterpCall of 3
       PyObj("icall", MainTS, 8, 17, TRUE, "-"),   \* 17 InterpCall of 8
       Plain("obj", "p1", 18, TRUE),               \* 18 p1's namespace
       Plain("obj", "p1", 19, FALSE),              \* 19 p1's list
       PyObj("dproxy", "p1", 18, 20, TRUE, "-") >> \* 20 DelegateProxy of 18

\* The attribute names scripts read; no object has "zz".
Names == {"n", "f", "g", "l", "zz"}

\* PyObject_GetAttr(obj, name) on the plain objects: the address of the
\* value, or 0 with AttributeError.
AttrOf(obj, name) ==
    IF obj = 1 THEN (IF name = "n" THEN 2 ELSE IF name = "f" THEN 3
                     ELSE IF name = "g" THEN 8
                     ELSE IF name = "o" THEN 4 ELSE IF name = "l" THEN 5
                     ELSE 0)
    ELSE IF obj = 18 THEN (IF name = "n" THEN 14 ELSE IF name = "f" THEN 12
                           ELSE IF name = "o" THEN 13
                           ELSE IF name = "l" THEN 19 ELSE 0)
    ELSE 0

\* interp_is_primitive(): numbers, strings, booleans and None.
interp_is_primitive(o) == o.kind \in {"int", "str", "bool", "none"}

\* PyCallable_Check(): the type has tp_call.  InterpObjProxyType sets
\* tp_call whatever it wraps.
PyCallable_Check(o) == o.kind \in {"func", "icall", "oproxy", "delegate"}

\* PyObject_IsInstance() of InterpCallType or InterpObjProxyType.
IsInterpProxy(o) == o.kind \in {"icall", "oproxy"}

\* A new object of the given type wrapping ref, bound to thread state ts.
NewProxy(h, kind, ref, ts) ==
    Append(h, PyObj(kind, ts, ref, Len(h) + 1, TRUE, "-"))

\* The key self->cache is searched with: the attribute itself, which the
\* dictionary compares with == after its hash, or
\* PyLong_FromVoidPtr(pyattr) when PyObject_Hash() failed.
CacheKey(h, a) ==
    IF h[a].hashable THEN [addr |-> 0, eq |-> h[a].eq]
    ELSE [addr |-> a, eq |-> 0]

\* PyDict_Contains(self->cache, key) and PyDict_GetItem(self->cache, key).
Cached(c, key) == {e \in c : e.key = key}
CachedVal(c, key) == (CHOOSE e \in c : e.key = key).val

\* A hash: PyObject_Hash() returns a Py_hash_t, or -1 with an exception.
NoHash == [ok |-> FALSE, val |-> 0]

\* What a comparison of two objects in a script gave: a == b, b == a,
\* a != b, hash(a) and hash(b).
NoRes == [eq |-> FALSE, rev |-> FALSE, ne |-> FALSE,
          ha |-> NoHash, hb |-> NoHash]

\* SwitchTSInfo tsinfo = { 0, 0, NULL }.
NoInfo == [do_release |-> 0, do_swap |-> 0, prior |-> NULL]

\* The C locals of the proxy operation in progress: the proxy and the name
\* or arguments it was given, PyThreadState_Get() at entry, the arguments
\* as the target receives them, the raw result (0 is NULL), the fetched
\* exception and the value handed back to the script; with them, as
\* history, the proxy's cache at entry and the number of objects there were
\* when the switch was made.
NoOp ==
    [kind |-> "none", stage |-> "idle", proxy |-> 0, name |-> "-",
     caller |-> NULL, args |-> <<>>, kwargs |-> <<>>, j |-> 0,
     recv |-> <<>>, recvkw |-> <<>>, raw |-> 0, exc |-> "none", out |-> 0,
     before |-> {}, nobj |-> 0, res |-> NoRes, tsinfo |-> NoInfo]

\* --------------------------------------------------- switch_threadstate()
\* if (!py_main_has_gil): the branch that calls PyGILState_Ensure().
NeedsEnsure(flag) == flag = 0

\* PyThreadState_IsCurrent(tcur) inside PyGILState_Ensure().
IsCurrent(t) == cur = AutoTS(t)

\* The SwitchTSInfo switch_threadstate() returns: ensured says whether the
\* PyGILState_Ensure() branch was taken, pycur is PyThreadState_Get().
SwitchInfoAlwaysSwap(ts, pycur, ensured) ==
    [do_release |-> IF ensured THEN 1 ELSE 0, do_swap |-> 1, prior |-> pycur]

SwitchInfo(ts, pycur, ensured) ==
    [do_release |-> IF ensured THEN 1 ELSE 0,
     do_swap    |-> IF ts # pycur THEN 1 ELSE 0,
     prior      |-> IF ts # pycur THEN pycur ELSE NULL]

\* if (tsinfo.do_release) in switch_threadstate_back().
BackReleasesAlways(tsinfo) == TRUE

BackReleases(tsinfo) == tsinfo.do_release = 1

\* The current thread state after the first half of switch_threadstate_back().
BackCur(tsinfo, c) == IF tsinfo.do_swap = 1 THEN tsinfo.prior ELSE c

Top(t) == stack[t][Len(stack[t])]

\* The C frame of a function that calls switch_threadstate(target), with its
\* tsinfo local.
Frame(kind, id, target) ==
    [kind |-> kind, id |-> id, target |-> target,
     do_release |-> 0, do_swap |-> 0, prior |-> NULL]

WithInfo(f, info) ==
    [f EXCEPT !.do_release = info.do_release, !.do_swap = info.do_swap,
              !.prior = info.prior]

SetTop(t, f) == [stack EXCEPT ![t] = [@ EXCEPT ![Len(@)] = f]]

\* The lock state and the active context, as history records them.
Snapshot == [cur |-> cur, gil |-> gil, flag |-> py_main_has_gil]

\* A caller reaches its call of switch_threadstate(target).
BeginSwitch(t, kind, id, target) ==
    /\ stack' = [stack EXCEPT ![t] = Append(@, Frame(kind, id, target))]
    /\ pc' = [pc EXCEPT ![t] = "sw_check"]
    /\ before' = IF before.on
                 THEN [before EXCEPT !.snaps[t] = Append(@, Snapshot)]
                 ELSE before

\* switch_threadstate(): the test of py_main_has_gil and, when it is set,
\* the rest of the function.
SwitchCheck(t) ==
    /\ pc[t] = "sw_check"
    /\ IF NeedsEnsure(py_main_has_gil)
       THEN /\ pc' = [pc EXCEPT ![t] = "sw_ensure"]
            /\ UNCHANGED <<cur, stack>>
       ELSE /\ stack' = SetTop(t, WithInfo(Top(t),
                                  SwitchInfo(Top(t).target, cur, FALSE)))
            /\ cur' = Top(t).target
            /\ pc' = [pc EXCEPT ![t] = "entered"]
    /\ UNCHANGED <<gil, py_main_has_gil, py_gilstate, saved, wait, interp>>
    /\ UNCHANGED delegateVars
    /\ UNCHANGED before
    /\ UNCHANGED histVars
    /\ UNCHANGED unloadVars
    /\ UNCHANGED proxyVars
    /\ UNCHANGED entryVars

\* switch_threadstate(): PyGILState_Ensure() returns (it blocks while another
\* thread owns the lock), then the flag is set and the swap is done.
SwitchEnsure(t) ==
    /\ pc[t] = "sw_ensure"
    /\ IsCurrent(t) \/ gil = NoThread
    /\ LET pycur == AutoTS(t) IN
       /\ gil' = IF IsCurrent(t) THEN gil ELSE t
       /\ py_gilstate' = IF IsCurrent(t) THEN "LOCKED" ELSE "UNLOCKED"
       /\ py_main_has_gil' = 1
       /\ stack' = SetTop(t, WithInfo(Top(t),
                             SwitchInfo(Top(t).target, pycur, TRUE)))
       /\ cur' = Top(t).target
    /\ pc' = [pc EXCEPT ![t] = "entered"]
    /\ UNCHANGED <<saved, wait, interp>>
    /\ UNCHANGED delegateVars
    /\ UNCHANGED before
    /\ UNCHANGED histVars
    /\ UNCHANGED unloadVars
    /\ UNCHANGED proxyVars
    /\ UNCHANGED entryVars

\* switch_threadstate_back(tsinfo) with the frame's tsinfo.
SwitchBack(t) ==
    /\ pc[t] = "back"
    /\ LET f == Top(t)
           c == BackCur(f, cur)
           drop == BackReleases(f) /\ py_gilstate = "UNLOCKED"
       IN /\ cur' = IF drop THEN NULL ELSE c
          /\ gil' = IF drop THEN NoThread ELSE gil
          /\ py_main_has_gil' = IF BackReleases(f) THEN 0 ELSE py_main_has_gil
    /\ pc' = [pc EXCEPT ![t] = "after"]
    /\ UNCHANGED <<py_gilstate, stack, saved, wait, interp>>
    /\ UNCHANGED delegateVars
    /\ UNCHANGED before
    /\ UNCHANGED histVars
    /\ UNCHANGED unloadVars
    /\ UNCHANGED proxyVars
    /\ UNCHANGED entryVars

\* The function that made the switch returns to its caller: the host's event
\* loop, or the script code that made the call.
Finish(t) ==
    /\ pc[t] = "after"
    /\ stack' = [stack EXCEPT ![t] = SubSeq(@, 1, Len(@) - 1)]
    /\ before' = IF before.on
                 THEN [before EXCEPT !.snaps[t] = SubSeq(@, 1, Len(@) - 1)]
                 ELSE before
    /\ pc' = [pc EXCEPT ![t] =
                 IF t = Main /\ Len(stack[t]) = 1 THEN "idle" ELSE "py"]
    /\ UNCHANGED <<saved, wait, interp>>
    /\ UNCHANGED runtimeVars
    /\ UNCHANGED delegateVars
    /\ UNCHANGED histVars
    /\ UNCHANGED unloadVars
    /\ UNCHANGED proxyVars
    /\ UNCHANGED entryVars

\* The callable of an InterpCall or of a host hook starts to run.
Invoke(t) ==
    /\ pc[t] = "entered"
    /\ Top(t).kind \in {"icall", "hook"}
    /\ pc' = [pc EXCEPT ![t] = "py"]
    /\ UNCHANGED <<stack, saved, wait, interp>>
    /\ UNCHANGED runtimeVars
    /\ UNCHANGED delegateVars
    /\ UNCHANGED before
    /\ UNCHANGED histVars
    /\ UNCHANGED unloadVars
    /\ UNCHANGED proxyVars
    /\ UNCHANGED entryVars

\* It returns (or raises): the caller goes on to switch_threadstate_back().
CallReturn(t) ==
    /\ pc[t] = "py"
    /\ stack[t] # <<>>
    /\ Top(t).kind \in {"icall", "hook"}
    /\ pc' = [pc EXCEPT ![t] = "back"]
    /\ UNCHANGED <<stack, saved, wait, interp>>
    /\ UNCHANGED runtimeVars
    /\ UNCHANGED delegateVars
    /\ UNCHANGED before
    /\ UNCHANGED histVars
    /\ UNCHANGED unloadVars
    /\ UNCHANGED proxyVars
    /\ UNCHANGED entryVars

\* InterpCall_call(): self->threadstate is the target.
InterpCall(t, target, depth) ==
    /\ pc[t] = "py"
    /\ Len(stack[t]) < depth
    /\ BeginSwitch(t, "icall", 0, target)
    /\ UNCHANGED <<saved, wait, interp>>
    /\ UNCHANGED runtimeVars
    /\ UNCHANGED delegateVars
    /\ UNCHANGED histVars
    /\ UNCHANGED unloadVars
    /\ UNCHANGED proxyVars
    /\ UNCHANGED entryVars

\* hc_all_callback_inner(): the host calls a hook of plugin p on its main
\* thread.
HookCallback(p) ==
    /\ pc[Main] = "idle"
    /\ interp[p] = "active"
    /\ BeginSwitch(Main, "hook", 0, p)
    /\ UNCHANGED <<saved, wait, interp>>
    /\ UNCHANGED runtimeVars
    /\ UNCHANGED delegateVars
    /\ UNCHANGED histVars
    /\ UNCHANGED unloadVars
    /\ UNCHANGED proxyVars
    /\ UNCHANGED entryVars

\* ------------------------------------------------------ InterpObjProxy
\* Script code of a hook callback, between two operations.
ScriptReady(t) ==
    /\ pc[t] = "py"
    /\ Len(stack[t]) = 1
    /\ Top(t).kind = "hook"
    /\ op.stage \in {"idle", "done", "caught"}
    /\ cur # NULL
    /\ pyerr[cur] = "none"

\* PyErr_Fetch(): hands the pending exception of thread state ts over and
\* clears it.
FetchLeavesPending(err, ts) == err

PyErr_Fetch(err, ts) == [err EXCEPT ![ts] = "none"]

\* PyErr_Restore(): exc becomes the pending exception of thread state ts.
RestoreDropped(err, ts, exc) == err

PyErr_Restore(err, ts, exc) == [err EXCEPT ![ts] = exc]

\* PyDict_SetItem(self->cache, key, val).
PyDict_SetItem(c, key, val) == {e \in c : e.key # key} \cup
                               {[key |-> key, val |-> val]}

\* The history of attribute reads: the value the first completed read of
\* name through proxy p returned, for a value raw that is not a primitive.
FirstGet(p, name, raw, out) ==
    IF interp_is_primitive(heap[raw]) \/
       \E g \in gets : g.proxy = p /\ g.name = name
    THEN gets
    ELSE gets \cup {[proxy |-> p, name |-> name, out |-> out]}

\* The value InterpObjProxy_getattro() returns for pyattr, with the heap and
\* the cache it leaves: primitives as they are, a cached proxy when the key
\* is in self->cache, else a new InterpObjProxy(pyattr, self->tscap) that is
\* stored under the key.  (The branch that made an InterpCall for a callable
\* is commented out.)
GetAttrResult(h, c, p, a) ==
    LET key == CacheKey(h, a) IN
    IF interp_is_primitive(h[a])
    THEN [out |-> a, heap |-> h, cache |-> c]
    ELSE IF Cached(c, key) # {}
    THEN [out |-> CachedVal(c, key), heap |-> h, cache |-> c]
    ELSE [out |-> Len(h) + 1,
          heap |-> NewProxy(h, "oproxy", a, h[p].ts),
          cache |-> PyDict_SetItem(c, key, Len(h) + 1)]

\* InterpObjProxy_getattro(): PyObject_GenericGetAttr() finds nothing on the
\* proxy itself, and the function switches to self->threadstate.
GetAttrBegin(t, p, name) ==
    /\ ScriptReady(t)
    /\ p \in 1..Len(heap)
    /\ heap[p].kind = "oproxy"
    /\ LET a == AttrOf(heap[p].ref, name) IN
       a # 0 => Len(GetAttrResult(heap, cache[p], p, a).heap) <= MaxObjs
    /\ op' = [NoOp EXCEPT !.kind = "getattr", !.stage = "begun",
                          !.proxy = p, !.name = name, !.caller = cur,
                          !.before = cache[p], !.nobj = Len(heap)]
    /\ BeginSwitch(t, "getattr", 0, heap[p].ts)
    /\ UNCHANGED <<saved, wait, interp>>
    /\ UNCHANGED runtimeVars
    /\ UNCHANGED delegateVars
    /\ UNCHANGED histVars
    /\ UNCHANGED unloadVars
    /\ UNCHANGED <<heap, cache, pyerr, gets>>
    /\ UNCHANGED entryVars

\* pyattr = PyObject_GetAttr(self->obj, pyname) in the target; on failure
\* PyErr_Fetch() takes the exception out of the target's thread state.
GetAttrFetch(t) ==
    /\ pc[t] = "entered"
    /\ Top(t).kind = "getattr"
    /\ LET a == AttrOf(heap[op.proxy].ref, op.name) IN
       IF a = 0
       THEN /\ pyerr' = PyErr_Fetch(
                           PyErr_Restore(pyerr, cur, "AttributeError"), cur)
            /\ op' = [op EXCEPT !.raw = 0, !.exc = "AttributeError",
                                !.stage = "fetched"]
       ELSE /\ op' = [op EXCEPT !.raw = a, !.stage = "fetched"]
            /\ UNCHANGED pyerr
    /\ pc' = [pc EXCEPT ![t] = "back"]
    /\ UNCHANGED <<stack, saved, wait, interp>>
    /\ UNCHANGED runtimeVars
    /\ UNCHANGED delegateVars
    /\ UNCHANGED before
    /\ UNCHANGED histVars
    /\ UNCHANGED unloadVars
    /\ UNCHANGED <<heap, cache, gets>>
    /\ UNCHANGED entryVars

\* After switch_threadstate_back(): PyErr_Restore() and NULL, or the value.
GetAttrFinish(t) ==
    /\ pc[t] = "after"
    /\ Top(t).kind = "getattr"
    /\ cur # NULL
    /\ LET p == op.proxy
           r == GetAttrResult(heap, cache[p], p, op.raw)
       IN IF op.raw = 0
          THEN /\ pyerr' = PyErr_Restore(pyerr, cur, op.exc)
               /\ op' = [op EXCEPT !.out = 0, !.stage = "done"]
               /\ UNCHANGED <<heap, cache, gets>>
          ELSE /\ heap' = r.heap
               /\ cache' = [cache EXCEPT ![p] = r.cache]
               /\ op' = [op EXCEPT !.out = r.out, !.stage = "done"]
               /\ gets' = FirstGet(p, op.name, op.raw, r.out)
               /\ UNCHANGED pyerr
    /\ stack' = [stack EXCEPT ![t] = SubSeq(@, 1, Len(@) - 1)]
    /\ pc' = [pc EXCEPT ![t] = "py"]
    /\ UNCHANGED <<saved, wait, interp>>
    /\ UNCHANGED runtimeVars
    /\ UNCHANGED delegateVars
    /\ UNCHANGED before
    /\ UNCHANGED histVars
    /\ UNCHANGED unloadVars
    /\ UNCHANGED entryVars

\* ---------------------------------- InterpCall_call, InterpObjProxy_call
\* What a script passes in a call, and the keyword arguments it passes
\* (named by their position in the kwargs dictionary).
ArgPool == {12, 13, 14, 15}

ArgLists == {<<>>} \cup {<<a>> : a \in ArgPool}
KwLists  == {<<>>, <<14>>, <<14, 12>>}

\* The argument loops of InterpCall_call(): instances of InterpCall or
\* InterpObjProxy and primitives are passed as they are, a callable becomes
\* InterpCall(pyobj) and anything else InterpObjProxy(pyobj); both
\* constructors take PyThreadState_Get(), here ts, as the interpreter.
ICallArg(h, a, ts) ==
    IF IsInterpProxy(h[a]) \/ interp_is_primitive(h[a])
    THEN [heap |-> h, out |-> a]
    ELSE IF PyCallable_Check(h[a])
    THEN [heap |-> NewProxy(h, "icall", a, ts), out |-> Len(h) + 1]
    ELSE [heap |-> NewProxy(h, "oproxy", a, ts), out |-> Len(h) + 1]

\* The argument loops of InterpObjProxy_call(): instances of InterpObjProxy
\* and primitives are passed as they are, anything else becomes
\* InterpObjProxy(pyobj).
OProxyArg(h, a, ts) ==
    IF h[a].kind = "oproxy" \/ interp_is_primitive(h[a])
    THEN [heap |-> h, out |-> a]
    ELSE [heap |-> NewProxy(h, "oproxy", a, ts), out |-> Len(h) + 1]

WrapArg(h, a, ts, kind) ==
    IF kind = "icall" THEN ICallArg(h, a, ts) ELSE OProxyArg(h, a, ts)

\* for (i = 0; i < len; i++): the loop over the values, in order.
RECURSIVE WrapAll(_, _, _, _)
WrapAll(h, vals, ts, kind) ==
    IF vals = <<>> THEN [heap |-> h, out |-> <<>>]
    ELSE LET w    == WrapArg(h, Head(vals), ts, kind)
             rest == WrapAll(w.heap, Tail(vals), ts, kind)
         IN [heap |-> rest.heap, out |-> <<w.out>> \o rest.out]

\* PyDict_Next(kwargs, &j, &pykey, &pyobj) in a loop of len rounds, j being
\* the value the local holds at entry: the entries after the first j are
\* visited, and the rounds left over get no entry and set the last one again.
KwVisited(kwargs, j) == SubSeq(kwargs, j + 1, Len(kwargs))

\* The keys that go with them.
KwKeys(kwargs, j) == [i \in 1..(Len(kwargs) - j) |-> i + j]

\* PyObject_Call(callable, pytup, pydict) in the target: the address of the
\* result, or 0 with the exception raised.
CallOutcome(h, f, recv, recvkw) ==
    IF h[f].kind # "func" THEN [raw |-> 0, exc |-> "TypeError"]
    ELSE IF h[f].beh = "raises" THEN [raw |-> 0, exc |-> "E"]
    ELSE IF h[f].beh = "make" THEN [raw |-> 4, exc |-> "none"]
    ELSE IF recv # <<>> THEN [raw |-> recv[1], exc |-> "none"]
    ELSE IF recvkw # <<>> THEN [raw |-> recvkw[1].val, exc |-> "none"]
    ELSE [raw |-> 10, exc |-> "none"]

\* The result of InterpCall_call() for pyret: None as it is, a callable as
\* InterpCall(pyret, self->tscap), any other non-primitive as
\* InterpObjProxy(pyret, self->tscap).
ICallRet(h, r, ts) ==
    IF h[r].kind = "none" THEN [heap |-> h, out |-> r]
    ELSE IF PyCallable_Check(h[r])
    THEN [heap |-> NewProxy(h, "icall", r, ts), out |-> Len(h) + 1]
    ELSE IF ~interp_is_primitive(h[r])
    THEN [heap |-> NewProxy(h, "oproxy", r, ts), out |-> Len(h) + 1]
    ELSE [heap |-> h, out |-> r]

\* The result of InterpObjProxy_call(): the callable branch is commented
\* out.
OProxyRet(h, r, ts) ==
    IF h[r].kind = "none" THEN [heap |-> h, out |-> r]
    ELSE IF ~interp_is_primitive(h[r])
    THEN [heap |-> NewProxy(h, "oproxy", r, ts), out |-> Len(h) + 1]
    ELSE [heap |-> h, out |-> r]

WrapRet(h, r, ts, kind) ==
    IF kind = "icall" THEN ICallRet(h, r, ts) ELSE OProxyRet(h, r, ts)

\* The call begins: both loops run in the caller's context.  Py_ssize_t j
\* has no initializer, so PyDict_Next() starts from whatever it holds; when
\* that is past the last entry, pykey is never set and PyDict_SetItem() is
\* given an indeterminate pointer.
CallBegin(t, p, args, kwargs, j) ==
    /\ ScriptReady(t)
    /\ p \in 1..Len(heap)
    /\ heap[p].kind \in {"icall", "oproxy"}
    /\ ~IsInterpProxy(heap[heap[p].ref])
    /\ kwargs = <<>> => j = 0
    /\ LET pos == WrapAll(heap, args, cur, heap[p].kind)
           kw  == WrapAll(pos.heap, KwVisited(kwargs, j), cur, heap[p].kind)
           rkw == [i \in 1..Len(kw.out) |->
                      [key |-> KwKeys(kwargs, j)[i], val |-> kw.out[i]]]
           res == CallOutcome(kw.heap, heap[p].ref, pos.out, rkw)
           o   == [NoOp EXCEPT !.kind = "call", !.proxy = p, !.caller = cur,
                               !.args = args, !.kwargs = kwargs, !.j = j,
                               !.recv = pos.out, !.nobj = Len(kw.heap)]
       IN /\ Len(kw.heap) <= MaxObjs
          /\ res.raw # 0 =>
                Len(WrapRet(kw.heap, res.raw, heap[p].ts,
                            heap[p].kind).heap) <= MaxObjs
          /\ IF kwargs # <<>> /\ j >= Len(kwargs)
             THEN /\ heap' = pos.heap
                  /\ op' = [o EXCEPT !.stage = "crashed"]
                  /\ pc' = [pc EXCEPT ![t] = "crashed"]
                  /\ UNCHANGED <<stack, before>>
             ELSE /\ heap' = kw.heap
                  /\ op' = [o EXCEPT !.stage = "begun", !.recvkw = rkw]
                  /\ BeginSwitch(t, "call", 0, heap[p].ts)
    /\ UNCHANGED <<saved, wait, interp>>
    /\ UNCHANGED runtimeVars
    /\ UNCHANGED delegateVars
    /\ UNCHANGED histVars
    /\ UNCHANGED unloadVars
    /\ UNCHANGED <<cache, pyerr, gets>>
    /\ UNCHANGED entryVars

\* pyret = PyObject_Call(...); if (!pyret) PyErr_Fetch() takes the exception
\* out of the target's thread state.
CallInvoke(t) ==
    /\ pc[t] = "entered"
    /\ Top(t).kind = "call"
    /\ LET r == CallOutcome(heap, heap[op.proxy].ref, op.recv, op.recvkw) IN
       /\ op' = [op EXCEPT !.raw = r.raw, !.exc = r.exc, !.stage = "fetched"]
       /\ pyerr' = IF r.raw = 0
                   THEN PyErr_Fetch(PyErr_Restore(pyerr, cur, r.exc), cur)
                   ELSE pyerr
    /\ pc' = [pc EXCEPT ![t] = "back"]
    /\ UNCHANGED <<stack, saved, wait, interp>>
    /\ UNCHANGED runtimeVars
    /\ UNCHANGED delegateVars
    /\ UNCHANGED before
    /\ UNCHANGED histVars
    /\ UNCHANGED unloadVars
    /\ UNCHANGED <<heap, cache, gets>>
    /\ UNCHANGED entryVars

\* After switch_threadstate_back(): PyErr_Restore() and NULL, or the result.
CallFinish(t) ==
    /\ pc[t] = "after"
    /\ Top(t).kind = "call"
    /\ cur # NULL
    /\ LET p == op.proxy
           r == WrapRet(heap, op.raw, heap[p].ts, heap[p].kind)
       IN IF op.raw = 0
          THEN /\ pyerr' = PyErr_Restore(pyerr, cur, op.exc)
               /\ op' = [op EXCEPT !.out = 0, !.stage = "done"]
               /\ UNCHANGED heap
          ELSE /\ heap' = r.heap
               /\ op' = [op EXCEPT !.out = r.out, !.stage = "done"]
               /\ UNCHANGED pyerr
    /\ stack' = [stack EXCEPT ![t] = SubSeq(@, 1, Len(@) - 1)]
    /\ pc' = [pc EXCEPT ![t] = "py"]
    /\ UNCHANGED <<saved, wait, interp>>
    /\ UNCHANGED runtimeVars
    /\ UNCHANGED delegateVars
    /\ UNCHANGED before
    /\ UNCHANGED histVars
    /\ UNCHANGED unloadVars
    /\ UNCHANGED <<cache, gets>>
    /\ UNCHANGED entryVars

\* -------------------------------------------------------- DelegateProxy
\* PyDict_Contains(self->cache, pyattr): 1, 0, or -1 with TypeError when
\* pyattr has no hash.
PyDict_Contains(c, h, a) ==
    IF ~h[a].hashable THEN -1
    ELSE IF Cached(c, CacheKey(h, a)) # {} THEN 1 ELSE 0

\* DelegateProxy_getattro(): no switch; the wrapped object is of the
\* caller's interpreter.  if (PyDict_Contains(...)) takes -1 for true, and
\* PyDict_GetItem() then returns NULL, which Py_INCREF() dereferences.
DelegateProxy_getattro(t, p, name) ==
    /\ ScriptReady(t)
    /\ p \in 1..Len(heap)
    /\ heap[p].kind = "dproxy"
    /\ Len(heap) < MaxObjs
    /\ LET a   == AttrOf(heap[p].ref, name)
           key == CacheKey(heap, a)
           o   == [NoOp EXCEPT !.kind = "dgetattr", !.proxy = p,
                               !.name = name, !.caller = cur, !.raw = a,
                               !.before = cache[p]]
       IN IF a = 0
          THEN /\ pyerr' = PyErr_Restore(pyerr, cur, "AttributeError")
               /\ op' = [o EXCEPT !.exc = "AttributeError", !.stage = "done"]
               /\ UNCHANGED <<heap, cache, pc>>
          ELSE IF PyDict_Contains(cache[p], heap, a) = -1
          THEN /\ op' = [o EXCEPT !.stage = "crashed"]
               /\ pc' = [pc EXCEPT ![t] = "crashed"]
               /\ UNCHANGED <<heap, cache, pyerr, gets>>
          ELSE IF PyDict_Contains(cache[p], heap, a) = 1
          THEN /\ op' = [o EXCEPT !.out = CachedVal(cache[p], key),
                                  !.stage = "done"]
               /\ UNCHANGED <<heap, cache, pyerr, pc>>
          ELSE IF PyCallable_Check(heap[a])
          THEN /\ heap' = NewProxy(heap, "delegate", a, heap[p].ts)
               /\ cache' = [cache EXCEPT ![p] =
                               PyDict_SetItem(@, key, Len(heap) + 1)]
               /\ op' = [o EXCEPT !.out = Len(heap) + 1, !.stage = "done"]
               /\ UNCHANGED <<pyerr, pc>>
          ELSE /\ op' = [o EXCEPT !.out = a, !.stage = "done"]
               /\ UNCHANGED <<heap, cache, pyerr, pc>>
    /\ gets' = IF AttrOf(heap[p].ref, name) = 0 \/ op'.stage = "crashed"
               THEN gets
               ELSE FirstGet(p, name, AttrOf(heap[p].ref, name), op'.out)
    /\ UNCHANGED <<stack, saved, wait, interp>>
    /\ UNCHANGED runtimeVars
    /\ UNCHANGED delegateVars
    /\ UNCHANGED before
    /\ UNCHANGED histVars
    /\ UNCHANGED unloadVars
    /\ UNCHANGED entryVars

\* ------------------------------------ InterpObjProxy_cmp, _hash
\* Py_hash_t, here a signed integer of HashBits bits.
HashBits == 4
HashMod  == 2 ^ HashBits
AsHash(n) == ((n + HashMod \div 2) % HashMod) - HashMod \div 2

\* The types whose tp_richcompare and tp_hash are the functions below.
CmpTypes == {"oproxy", "dproxy"}

\* PyObject_Hash() of the objects that are not proxies: equal objects have
\* equal hashes, an object without a hash gives -1 with TypeError, and -1
\* is never a hash.
ObjHash(o) ==
    IF ~o.hashable THEN NoHash
    ELSE LET v == AsHash(o.eq * 3) IN
         [ok |-> TRUE, val |-> IF v = -1 THEN -2 ELSE v]

\* PyObject_Hash((PyObject *)Py_TYPE(self)).
TypeHash(kind) == IF kind = "oproxy" THEN 5 ELSE 6

\* InterpObjProxy_hash(), DelegateProxy_hash(): hash1 + hash2, which the
\* caller takes for a failure when it is -1 or when PyObject_Hash() of the
\* wrapped object has set an exception.
RECURSIVE PyObject_Hash(_, _)
InterpObjProxy_hash(h, a) ==
    LET hash1 == PyObject_Hash(h, h[a].ref)
        sum   == AsHash((IF hash1.ok THEN hash1.val ELSE -1)
                        + TypeHash(h[a].kind))
    IN IF hash1.ok /\ sum # -1 THEN [ok |-> TRUE, val |-> sum] ELSE NoHash

PyObject_Hash(h, a) ==
    IF h[a].kind \in CmpTypes THEN InterpObjProxy_hash(h, a)
    ELSE ObjHash(h[a])

\* InterpObjProxy_cmp(a, b, op), DelegateProxy_cmp(): the comparison of the
\* wrapped objects when b has the type of a, else False whatever op is.
\* PyObject_RichCompare(a, b, op) for op in Py_EQ, Py_NE: a's function when
\* a is a proxy, else b's (reflected), else the objects' own equality.
RECURSIVE PyObject_RichCompare(_, _, _, _)
CmpByIdentity(h, a, b, cmpop) ==
    IF cmpop = "==" THEN a = b ELSE a # b

InterpObjProxy_cmp(h, a, b, cmpop) ==
    IF h[b].kind = h[a].kind
    THEN PyObject_RichCompare(h, h[a].ref, h[b].ref, cmpop)
    ELSE FALSE

PyObject_RichCompare(h, a, b, cmpop) ==
    IF h[a].kind \in CmpTypes THEN InterpObjProxy_cmp(h, a, b, cmpop)
    ELSE IF h[b].kind \in CmpTypes THEN InterpObjProxy_cmp(h, b, a, cmpop)
    ELSE IF cmpop = "==" THEN h[a].eq = h[b].eq ELSE h[a].eq # h[b].eq

\* The objects a script of p1 has at hand, and those it wraps in a proxy:
\* the two tuples, the list and the proxies it has made.
OwnObjects == {a \in 1..Len(heap) : heap[a].ts = "p1" \/
                                    heap[a].kind \in {"icall", "oproxy"}}
WrapPool   == {6, 7, 19} \cup {a \in OwnObjects : a > Len(Heap0)}

\* InterpObjProxy_init(obj), DelegateProxy_init(obj): the script makes a
\* proxy of one of its objects; the interpreter is PyThreadState_Get().
MakeProxy(t, kind, obj) ==
    /\ ScriptReady(t)
    /\ obj \in WrapPool
    /\ Len(heap) < MaxObjs
    /\ heap' = NewProxy(heap, kind, obj, cur)
    /\ op' = [NoOp EXCEPT !.kind = "new", !.stage = "done", !.raw = obj,
                          !.caller = cur, !.out = Len(heap) + 1]
    /\ UNCHANGED <<pc, stack, saved, wait, interp>>
    /\ UNCHANGED runtimeVars
    /\ UNCHANGED delegateVars
    /\ UNCHANGED before
    /\ UNCHANGED histVars
    /\ UNCHANGED unloadVars
    /\ UNCHANGED <<cache, pyerr, gets>>
    /\ UNCHANGED entryVars

\* The script evaluates a == b, b == a, a != b, hash(a) and hash(b) for a
\* proxy a and an object b.
Compare(t, a, b) ==
    /\ ScriptReady(t)
    /\ a \in OwnObjects /\ b \in WrapPool
    /\ heap[a].kind \in CmpTypes
    /\ op' = [NoOp EXCEPT !.kind = "cmp", !.stage = "done", !.proxy = a,
                 !.raw = b, !.caller = cur,
                 !.res = [eq  |-> PyObject_RichCompare(heap, a, b, "=="),
                          rev |-> PyObject_RichCompare(heap, b, a, "=="),
                          ne  |-> PyObject_RichCompare(heap, a, b, "!="),
                          ha  |-> PyObject_Hash(heap, a),
                          hb  |-> PyObject_Hash(heap, b)]]
    /\ UNCHANGED <<pc, stack, saved, wait, interp>>
    /\ UNCHANGED runtimeVars
    /\ UNCHANGED delegateVars
    /\ UNCHANGED before
    /\ UNCHANGED histVars
    /\ UNCHANGED unloadVars
    /\ UNCHANGED <<heap, cache, pyerr, gets>>
    /\ UNCHANGED entryVars

\* --------------------------------------- InterpCall_call (interpcall.c)
\* The values a SwitchTSInfo local that was never assigned may hold.
AnyInfo ==
    [do_release : {0, 1}, do_swap : {0, 1}, prior : ThreadStates \cup {NULL}]

\* The SwitchTSInfo the frame's switch_threadstate() call returned.
InfoOf(f) ==
    [do_release |-> f.do_release, do_swap |-> f.do_swap, prior |-> f.prior]

\* InterpCall_call() of interpcall.c: SwitchTSInfo tsinfo; is declared
\* without initializer, and switch_threadstate(self->threadstate); is
\* called as a statement, its result dropped.
InterpCall_call(t, target, tsinfo) ==
    /\ ScriptReady(t)
    /\ tsinfo \in AnyInfo
    /\ op' = [NoOp EXCEPT !.kind = "call0", !.stage = "begun",
                          !.caller = cur, !.tsinfo = tsinfo]
    /\ BeginSwitch(t, "icall0", 0, target)
    /\ UNCHANGED <<saved, wait, interp>>
    /\ UNCHANGED runtimeVars
    /\ UNCHANGED delegateVars
    /\ UNCHANGED histVars
    /\ UNCHANGED unloadVars
    /\ UNCHANGED <<heap, cache, pyerr, gets>>
    /\ UNCHANGED entryVars

\* pyret = PyObject_Call(self->callable, args, kwargs) runs and returns.
InterpCall_body(t) ==
    /\ pc[t] = "entered"
    /\ Top(t).kind = "icall0"
    /\ pc' = [pc EXCEPT ![t] = "back0"]
    /\ UNCHANGED <<stack, saved, wait, interp>>
    /\ UNCHANGED runtimeVars
    /\ UNCHANGED delegateVars
    /\ UNCHANGED before
    /\ UNCHANGED histVars
    /\ UNCHANGED unloadVars
    /\ UNCHANGED proxyVars
    /\ UNCHANGED entryVars

\* switch_threadstate_back(tsinfo) with the local that was never assigned.
InterpCall_back(t) ==
    /\ pc[t] = "back0"
    /\ LET f == op.tsinfo
           c == BackCur(f, cur)
           drop == BackReleases(f) /\ py_gilstate = "UNLOCKED"
       IN /\ cur' = IF drop THEN NULL ELSE c
          /\ gil' = IF drop THEN NoThread ELSE gil
          /\ py_main_has_gil' = IF BackReleases(f) THEN 0 ELSE py_main_has_gil
    /\ op' = [op EXCEPT !.stage = "done"]
    /\ pc' = [pc EXCEPT ![t] = "after"]
    /\ UNCHANGED <<py_gilstate, stack, saved, wait, interp>>
    /\ UNCHANGED delegateVars
    /\ UNCHANGED before
    /\ UNCHANGED histVars
    /\ UNCHANGED unloadVars
    /\ UNCHANGED <<heap, cache, pyerr, gets>>
    /\ UNCHANGED entryVars

\* The script's except clause: PyErr_Clear() in the running thread state.
Except(t) ==
    /\ pc[t] = "py"
    /\ Len(stack[t]) = 1
    /\ op.stage = "done"
    /\ cur # NULL
    /\ pyerr[cur] # "none"
    /\ pyerr' = PyErr_Fetch(pyerr, cur)
    /\ op' = [op EXCEPT !.stage = "caught"]
    /\ UNCHANGED <<pc, stack, saved, wait, interp>>
    /\ UNCHANGED runtimeVars
    /\ UNCHANGED delegateVars
    /\ UNCHANGED before
    /\ UNCHANGED histVars
    /\ UNCHANGED unloadVars
    /\ UNCHANGED <<heap, cache, gets>>
    /\ UNCHANGED entryVars

\* The host calls the hook of the script that works with the proxies.
ScriptHook ==
    /\ op.stage = "idle"
    /\ HookCallback("p1")

\* ------------------------------------------------ the interpreter's lock
\* A thread that wants the lock and does not have it.
WantsGil(u) ==
    \/ pc[u] = "gilwait"
    \/ pc[u] = "sw_ensure" /\ ~IsCurrent(u)
    \/ pc[u] \in {"qget", "arget"} /\ queue[wait[u]] # <<>>

\* The eval loop of the thread that owns the lock honours another thread's
\* drop request: PyEval_SaveThread().
Yield(t) ==
    /\ pc[t] = "py"
    /\ gil = t
    /\ \E u \in Threads \ {t} : WantsGil(u)
    /\ saved' = [saved EXCEPT ![t] = cur]
    /\ cur' = NULL
    /\ gil' = NoThread
    /\ pc' = [pc EXCEPT ![t] = "gilwait"]
    /\ UNCHANGED <<py_main_has_gil, py_gilstate, stack, wait, interp>>
    /\ UNCHANGED delegateVars
    /\ UNCHANGED before
    /\ UNCHANGED histVars
    /\ UNCHANGED unloadVars
    /\ UNCHANGED proxyVars
    /\ UNCHANGED entryVars

\* PyEval_RestoreThread(): the thread takes the lock again.
Resume(t) ==
    /\ pc[t] = "gilwait"
    /\ gil = NoThread
    /\ gil' = t
    /\ cur' = saved[t]
    /\ pc' = [pc EXCEPT ![t] = "py"]
    /\ UNCHANGED <<py_main_has_gil, py_gilstate, stack, saved, wait, interp>>
    /\ UNCHANGED delegateVars
    /\ UNCHANGED before
    /\ UNCHANGED histVars
    /\ UNCHANGED unloadVars
    /\ UNCHANGED proxyVars
    /\ UNCHANGED entryVars

\* A worker thread's script function returns: the thread ends.
WorkerExit(t) ==
    /\ t \in Workers
    /\ pc[t] = "py"
    /\ stack[t] = <<>>
    /\ gil = t
    /\ gil' = NoThread
    /\ cur' = NULL
    /\ pc' = [pc EXCEPT ![t] = "exited"]
    /\ UNCHANGED <<py_main_has_gil, py_gilstate, stack, saved, wait, interp>>
    /\ UNCHANGED delegateVars
    /\ UNCHANGED before
    /\ UNCHANGED histVars
    /\ UNCHANGED unloadVars
    /\ UNCHANGED proxyVars
    /\ UNCHANGED entryVars

\* --------------------------------------------------------------- Delegate
\* if (pyret && Py_TYPE(pyret) == ContextTypePtr): a Context is handed out
\* inside a DelegateProxy.
DelegateWrap(v, async) ==
    IF v.t = "Context" THEN Val("DelegateProxy", IF async THEN 1 ELSE 0) ELSE v

\* AsyncResult_init(): result and error start as None.
AsyncResult_init(bound) ==
    [exists |-> TRUE, bound |-> bound, done |-> 0,
     result |-> None, error |-> None]

NoAsyncResult ==
    [exists |-> FALSE, bound |-> FALSE, done |-> 0,
     result |-> None, error |-> None]

asyncresult_set_result(ar, result) ==
    [ar EXCEPT !.result = DelegateWrap(result, TRUE), !.done = 1]

asyncresult_set_error(ar, err) == [ar EXCEPT !.error = err, !.done = 1]

\* What a synchronous Delegate_call has not returned yet.
Pending == [status |-> 1, payload |-> None]

\* The test of Delegate_call(): is the current thread state one of the host
\* main thread?
OnMainThread(ts) == ThreadIdOf(ts) = Main

\* What Delegate_call() returns from its main-thread branch when not async.
DirectReturn(out) ==
    IF out.status = 0
    THEN [status |-> 0, payload |-> DelegateWrap(out.payload, FALSE)]
    ELSE out

\* asyncresult_queue_get() blocks when the AsyncResult is not done.  The
\* result a synchronous Delegate_call() makes of the record it received.
FromRecord(rec) ==
    IF rec.status = 0
    THEN [status |-> 0, payload |-> DelegateWrap(rec.payload, FALSE)]
    ELSE [status |-> -1, payload |-> rec.payload]

\* What Delegate_call() returns when is_async is set: the AsyncResult, in
\* both branches (the error of the main-thread branch was fetched).
AsyncReturnRaises(id, out) ==
    IF out.status = 0 THEN [status |-> 0, payload |-> Val("AsyncResult", id)]
    ELSE out

AsyncReturn(id, out) == [status |-> 0, payload |-> Val("AsyncResult", id)]

\* hexchat_hook_timer(ph, 0, delegate_timer_callback, data): the host keeps
\* its timers in the order they were handed in.
hook_timer_in_front(tq, id) == <<id>> \o tq

hexchat_hook_timer(tq, id) == Append(tq, id)

\* delegate_timer_callback() returns 0: the host drops the timer it ran.
TimerKept(tq) == tq

TimerReturn0(tq) == Tail(tq)

\* queue.put(record) on the one-slot channel of a call.
QueuePutLost(q, rec) == q

QueuePut(q, rec) == Append(q, rec)

\* History of the reads of one AsyncResult: no receive made, no field read.
Unread == Val("unread", 0)
NoReads == [gets |-> 0, result |-> Unread, error |-> Unread]

\* One call of a function of the host's plugin API, made on OS thread t.
HostCall(fn, t) == [fn |-> fn, thread |-> t]

\* Delegate_call(self, args, kwargs) made by thread t.
Delegate_call(t, c, a, async) ==
    /\ pc[t] = "py"
    /\ Len(calls) < MaxCalls
    /\ cur # NULL
    /\ LET id == Len(calls) + 1
           direct == OnMainThread(cur)
           out == Apply(c, a)
       IN /\ calls' = Append(calls,
                 [caller |-> t, callable |-> c, args |-> a, is_async |-> async,
                  threadstate |-> HomeOf(cur), queued |-> ~direct])
          /\ queue' = Append(queue, <<>>)
          /\ posted' = Append(posted, 0)
          /\ execLog' = IF direct
                        THEN Append(execLog, [id |-> id, thread |-> t,
                                              queued |-> FALSE, alive |-> TRUE])
                        ELSE execLog
          /\ timers' = IF direct THEN timers ELSE hexchat_hook_timer(timers, id)
          /\ hostCalls' = IF direct THEN hostCalls
                          ELSE hostCalls \cup {HostCall("hook_timer", t)}
          /\ readHist' = Append(readHist, NoReads)
          /\ got' = Append(got, IF async THEN AsyncReturn(id, out)
                                ELSE IF direct THEN DirectReturn(out)
                                ELSE Pending)
          /\ ares' = Append(ares,
                 IF ~async THEN NoAsyncResult
                 ELSE IF ~direct THEN AsyncResult_init(TRUE)
                 ELSE IF out.status = 0
                      THEN asyncresult_set_result(AsyncResult_init(FALSE),
                                                  out.payload)
                      ELSE asyncresult_set_error(AsyncResult_init(FALSE),
                                                 out.payload))
          /\ IF ~direct /\ ~async
             THEN \* the blocking Queue.get(): the lock is dropped meanwhile
                  /\ pc' = [pc EXCEPT ![t] = "qget"]
                  /\ wait' = [wait EXCEPT ![t] = id]
                  /\ saved' = [saved EXCEPT ![t] = cur]
                  /\ cur' = NULL
                  /\ gil' = NoThread
             ELSE UNCHANGED <<pc, wait, saved, cur, gil>>
    /\ UNCHANGED <<py_main_has_gil, py_gilstate, stack, lastRead, interp>>
    /\ UNCHANGED before
    /\ UNCHANGED unloadVars
    /\ UNCHANGED proxyVars
    /\ UNCHANGED entryVars

\* The blocked Queue.get() of a synchronous Delegate_call() returns.
QGetReturn(t) ==
    /\ pc[t] = "qget"
    /\ queue[wait[t]] # <<>>
    /\ gil = NoThread
    /\ gil' = t
    /\ cur' = saved[t]
    /\ got' = [got EXCEPT ![wait[t]] = FromRecord(Head(queue[wait[t]]))]
    /\ queue' = [queue EXCEPT ![wait[t]] = Tail(@)]
    /\ pc' = [pc EXCEPT ![t] = "py"]
    /\ wait' = [wait EXCEPT ![t] = 0]
    /\ UNCHANGED <<py_main_has_gil, py_gilstate, stack, saved, timers, calls,
                   ares, execLog, posted, lastRead, interp>>
    /\ UNCHANGED before
    /\ UNCHANGED histVars
    /\ UNCHANGED unloadVars
    /\ UNCHANGED proxyVars
    /\ UNCHANGED entryVars

\* The host's event loop runs the next timer: delegate_timer_callback(data)
\* up to its call of switch_threadstate(data->threadstate).
Pump ==
    /\ pc[Main] = "idle"
    /\ timers # <<>>
    /\ BeginSwitch(Main, "timer", Head(timers), calls[Head(timers)].threadstate)
    /\ timers' = TimerReturn0(timers)
    /\ UNCHANGED <<saved, wait, interp, calls, queue, got, ares, execLog,
                   posted, lastRead>>
    /\ UNCHANGED runtimeVars
    /\ UNCHANGED histVars
    /\ UNCHANGED unloadVars
    /\ UNCHANGED proxyVars
    /\ UNCHANGED entryVars

Alive(ts) == ts = MainTS \/ interp[ts] = "active"

\* delegate_timer_callback(): PyObject_Call(data->callable, ...) starts.
\* With data->threadstate freed by Py_EndInterpreter() the behaviour is
\* undefined: the callable runs in the dead interpreter, or the process ends.
TimerInvoke(t) ==
    /\ pc[t] = "entered"
    /\ Top(t).kind = "timer"
    /\ \/ /\ execLog' = Append(execLog, [id |-> Top(t).id, thread |-> t,
                                         queued |-> TRUE,
                                         alive |-> Alive(Top(t).target)])
          /\ pc' = [pc EXCEPT ![t] = "py"]
       \/ /\ ~Alive(Top(t).target)
          /\ pc' = [pc EXCEPT ![t] = "crashed"]
          /\ UNCHANGED execLog
    /\ UNCHANGED <<stack, saved, wait, interp, timers, calls, queue, got, ares,
                   posted, lastRead>>
    /\ UNCHANGED runtimeVars
    /\ UNCHANGED before
    /\ UNCHANGED histVars
    /\ UNCHANGED unloadVars
    /\ UNCHANGED proxyVars
    /\ UNCHANGED entryVars

\* The [status, payload] list delegate_timer_callback() builds.
TimerRecordAlwaysOk(out) == [status |-> 0, payload |-> out.payload]

TimerRecord(out) == [status |-> out.status, payload |-> out.payload]

\* delegate_timer_callback(): the callable has returned or raised; the
\* record is put on data->queue.
TimerPut(t) ==
    /\ pc[t] = "py"
    /\ stack[t] # <<>>
    /\ Top(t).kind = "timer"
    /\ LET id == Top(t).id
           out == Apply(calls[id].callable, calls[id].args)
       IN /\ queue' = [queue EXCEPT ![id] = QueuePut(@, TimerRecord(out))]
          /\ posted' = [posted EXCEPT ![id] = @ + 1]
    /\ pc' = [pc EXCEPT ![t] = "back"]
    /\ UNCHANGED <<stack, saved, wait, interp, timers, calls, got, ares,
                   execLog, lastRead>>
    /\ UNCHANGED runtimeVars
    /\ UNCHANGED before
    /\ UNCHANGED histVars
    /\ UNCHANGED unloadVars
    /\ UNCHANGED proxyVars
    /\ UNCHANGED entryVars

\* ------------------------------------------------------------ AsyncResult
NoRead == [id |-> 0, field |-> "none", open |-> FALSE, value |-> None,
           served |-> FALSE]

\* History: the timer callback of call id has run to its end.
Served(id) == posted[id] > 0 /\ pc[Main] = "idle"

\* History: a read of field of call id's AsyncResult returns value.
Returned(id, field, value) ==
    IF field = "result" THEN [readHist EXCEPT ![id].result = value]
    ELSE [readHist EXCEPT ![id].error = value]

FieldOf(ar, field) == IF field = "result" THEN ar.result ELSE ar.error

\* AsyncResult_get_result() / AsyncResult_get_error() up to the blocking
\* Queue.get() of asyncresult_queue_get(): done is set before the receive.
ReadStart(t, id, field) ==
    /\ pc[t] = "py"
    /\ id \in 1..Len(calls)
    /\ ares[id].exists
    /\ IF ares[id].done = 1
       THEN /\ lastRead' = [lastRead EXCEPT ![t] =
                   [id |-> id, field |-> field, open |-> FALSE,
                    value |-> FieldOf(ares[id], field),
                    served |-> Served(id)]]
            /\ readHist' = Returned(id, field, FieldOf(ares[id], field))
            /\ pc' = [pc EXCEPT ![t] = "read"]
            /\ UNCHANGED <<ares, wait, saved, cur, gil>>
       ELSE /\ ares' = [ares EXCEPT ![id].done = 1]
            /\ lastRead' = [lastRead EXCEPT ![t] =
                   [id |-> id, field |-> field, open |-> TRUE,
                    value |-> None,
                    served |-> Served(id)]]
            /\ readHist' = [readHist EXCEPT ![id].gets = @ + 1]
            /\ pc' = [pc EXCEPT ![t] = "arget"]
            /\ wait' = [wait EXCEPT ![t] = id]
            /\ saved' = [saved EXCEPT ![t] = cur]
            /\ cur' = NULL
            /\ gil' = NoThread
    /\ UNCHANGED <<py_main_has_gil, py_gilstate, stack, timers, calls, queue,
                   got, execLog, posted, interp>>
    /\ UNCHANGED <<before, hostCalls>>
    /\ UNCHANGED unloadVars
    /\ UNCHANGED proxyVars
    /\ UNCHANGED entryVars

\* asyncresult_queue_get() after the receive: the record is stored in the
\* error or the result field.
StoreRecordInBoth(ar, rec) ==
    [ar EXCEPT !.error = rec.payload, !.result = rec.payload]

StoreRecord(ar, rec) ==
    IF rec.status # 0 THEN [ar EXCEPT !.error = rec.payload]
    ELSE [ar EXCEPT !.result = DelegateWrap(rec.payload, TRUE)]

ReadFinish(t) ==
    /\ pc[t] = "arget"
    /\ queue[wait[t]] # <<>>
    /\ gil = NoThread
    /\ gil' = t
    /\ cur' = saved[t]
    /\ LET id == wait[t]
           ar == StoreRecord(ares[id], Head(queue[id]))
       IN /\ ares' = [ares EXCEPT ![id] = ar]
          /\ lastRead' = [lastRead EXCEPT ![t].value =
                              FieldOf(ar, lastRead[t].field),
                          ![t].open = FALSE]
          /\ readHist' = Returned(id, lastRead[t].field,
                                  FieldOf(ar, lastRead[t].field))
          /\ queue' = [queue EXCEPT ![id] = Tail(@)]
    /\ pc' = [pc EXCEPT ![t] = "read"]
    /\ wait' = [wait EXCEPT ![t] = 0]
    /\ UNCHANGED <<py_main_has_gil, py_gilstate, stack, saved, timers, calls,
                   got, execLog, posted, interp>>
    /\ UNCHANGED <<before, hostCalls>>
    /\ UNCHANGED unloadVars
    /\ UNCHANGED proxyVars
    /\ UNCHANGED entryVars

\* The accessor returns the field to the script.
ReadReturn(t) ==
    /\ pc[t] = "read"
    /\ lastRead' = [lastRead EXCEPT ![t] = NoRead]
    /\ pc' = [pc EXCEPT ![t] = "py"]
    /\ UNCHANGED <<stack, saved, wait, interp, timers, calls, queue, got, ares,
                   execLog, posted, before>>
    /\ UNCHANGED runtimeVars
    /\ UNCHANGED histVars
    /\ UNCHANGED unloadVars
    /\ UNCHANGED proxyVars
    /\ UNCHANGED entryVars

\* ------------------------------------------------- the hexchat module
\* The functions of the hexchat module in this model: print, hook_timer
\* (py_all_hook_inner with CBV_TIMER) and list_pluginpref.
ApiFunctions == {"print", "hook_timer", "list_pluginpref"}

\* main_thread_check(): -1 (and RuntimeError set) when the thread id of the
\* current thread state is not that of py_g_main_threadstate.
main_thread_check(ts) == IF ThreadIdOf(ts) # Main THEN -1 ELSE 0

\* Does the function return early on main_thread_check()?  py_print does;
\* py_all_hook_inner skips the test for timers; py_list_pluginpref has none.
Guarded(fn) == fn = "print"

\* Script code of thread t calls hexchat.<fn>(): the function reaches its
\* host API call unless the guard returns first.
ApiCall(t, fn) ==
    /\ pc[t] = "py"
    /\ cur # NULL
    /\ hostCalls' = IF Guarded(fn) /\ main_thread_check(cur) # 0
                    THEN hostCalls
                    ELSE hostCalls \cup {HostCall(fn, t)}
    /\ UNCHANGED <<pc, stack, saved, wait, interp, before, readHist>>
    /\ UNCHANGED runtimeVars
    /\ UNCHANGED delegateVars
    /\ UNCHANGED unloadVars
    /\ UNCHANGED proxyVars
    /\ UNCHANGED entryVars

\* Context_prnt(): main_thread_check(); then set_ctx() (hexchat_get_context
\* and hexchat_set_context(self->ctxptr)), hexchat_print() and
\* hexchat_set_context(prior_ctx).
Context_prnt(t) ==
    /\ pc[t] = "py"
    /\ cur # NULL
    /\ hostCalls' = IF main_thread_check(cur) # 0
                    THEN hostCalls
                    ELSE hostCalls \cup {HostCall("set_context", t),
                                         HostCall("print", t)}
    /\ UNCHANGED <<pc, stack, saved, wait, interp, before, readHist>>
    /\ UNCHANGED runtimeVars
    /\ UNCHANGED delegateVars
    /\ UNCHANGED unloadVars
    /\ UNCHANGED proxyVars
    /\ UNCHANGED entryVars

\* ------------------------------------------------------------ teardown
\* unload_plugin(): the plugin is in the list.  Py_EndInterpreter() needs
\* the interpreter's other threads to have ended.
Unload(p) ==
    /\ pc[Main] = "idle"
    /\ interp[p] = "active"
    /\ \A w \in Workers : HomeOf(WorkerTS(w)) = p => pc[w] = "exited"
    /\ BeginSwitch(Main, "delete", 0, p)
    /\ UNCHANGED <<saved, wait, interp>>
    /\ UNCHANGED runtimeVars
    /\ UNCHANGED delegateVars
    /\ UNCHANGED histVars
    /\ UNCHANGED unloadVars
    /\ UNCHANGED proxyVars
    /\ UNCHANGED entryVars

\* delete_interp(): between the two switch calls.  After
\* Py_EndInterpreter() no thread state is current.
DeleteBody(t) ==
    /\ pc[t] = "entered"
    /\ Top(t).kind = "delete"
    /\ IF cur = Top(t).target
       THEN /\ interp' = [interp EXCEPT ![Top(t).target] = "destroyed"]
            /\ cur' = NULL
       ELSE UNCHANGED <<interp, cur>>
    /\ pc' = [pc EXCEPT ![t] = "back"]
    /\ UNCHANGED <<gil, py_main_has_gil, py_gilstate, stack, saved, wait>>
    /\ UNCHANGED delegateVars
    /\ UNCHANGED before
    /\ UNCHANGED histVars
    /\ UNCHANGED unloadVars
    /\ UNCHANGED proxyVars
    /\ UNCHANGED entryVars

\* ------------------------------------------------------------ the console
\* The thread state of the console's interpreter.
ConsoleTS == "cts"

\* The kinds of text the user enters: one that is a statement by itself and
\* an element inside brackets ("1,"), one that opens a bracket ("("), one
\* that closes one ("),"), one the parser rejects ("1 +* 2"); blank is the
\* "\n" keypress_callback() passes.
Lines == {"stmt", "open", "close", "bad"}

\* console_interp_data after create_callback(); script and retval are the
\* argument of the exec_console_command() call in progress and what the
\* last call returned.
NoConsole == [contmode |-> 0, scriptbuf |-> <<>>, script |-> "none",
              retval |-> 0]

\* The brackets left open after the lines of text, from depth d; -1 when
\* the parser has met an error.
RECURSIVE Brackets(_, _)
Brackets(text, d) ==
    IF text = <<>> \/ d < 0 THEN d
    ELSE LET l == Head(text)
         IN IF l = "bad" THEN -1
            ELSE IF l = "open" THEN Brackets(Tail(text), d + 1)
            ELSE IF l = "close" THEN Brackets(Tail(text), d - 1)
            ELSE Brackets(Tail(text), d)

\* PyParser_SimpleParseString(pyscript, Py_file_input) and the tests of the
\* error: a node ("ok"), SyntaxError "unexpected EOF while parsing" ("eof"),
\* or another error ("error").
PyParser_SimpleParseString(text) ==
    LET d == Brackets(text, 0)
    IN IF d < 0 THEN "error" ELSE IF d > 0 THEN "eof" ELSE "ok"

\* data->contmode = 0; data->scriptbuf = PyList_New(0);
ConsoleReset(c, retval) ==
    [c EXCEPT !.contmode = 0, !.scriptbuf = <<>>, !.retval = retval]

\* The body of exec_console_command(script) between the switches; run is
\* the outcome of PyRun_String() when the script is executed.
exec_console_body(c, run) ==
    LET buf      == IF c.contmode = 0 THEN c.scriptbuf
                    ELSE Append(c.scriptbuf, c.script)
        pyscript == IF c.contmode = 0 THEN <<c.script>> ELSE buf
        retnode  == PyParser_SimpleParseString(pyscript)
    IN IF retnode = "eof"
       THEN IF c.contmode = 0
            THEN [c EXCEPT !.scriptbuf = Append(buf, c.script),
                           !.contmode = 1, !.retval = 0]
            ELSE [c EXCEPT !.scriptbuf = buf, !.retval = 0]
       ELSE IF retnode = "error" THEN ConsoleReset(c, -1)
       ELSE IF c.contmode = 0 \/ c.contmode = 2 THEN ConsoleReset(c, run)
       ELSE [c EXCEPT !.scriptbuf = buf, !.retval = 0]

\* A host callback of the console on the idle main thread reaches
\* exec_console_command(script) and its switch_threadstate().
ConsoleCall(script, contmode) ==
    /\ pc[Main] = "idle"
    /\ Len(console.scriptbuf) < MaxBuf
    /\ console' = [console EXCEPT !.script = script, !.contmode = contmode]
    /\ BeginSwitch(Main, "console", 0, ConsoleTS)
    /\ UNCHANGED <<saved, wait, interp, entry, plugin_list>>
    /\ UNCHANGED runtimeVars
    /\ UNCHANGED delegateVars
    /\ UNCHANGED histVars
    /\ UNCHANGED unloadVars
    /\ UNCHANGED proxyVars

\* python_command_callback(): the user enters a line in the console.
python_command_callback(l) ==
    /\ l \in Lines
    /\ ConsoleCall(l, console.contmode)

\* keypress_callback(): the enter key with an empty input box, while a
\* script is being built.
keypress_callback ==
    /\ console.contmode = 1
    /\ ConsoleCall("blank", 2)

\* exec_console_command() from its switch to its switch back.
exec_console_command(t, run) ==
    /\ pc[t] = "entered"
    /\ Top(t).kind = "console"
    /\ console' = exec_console_body(console, run)
    /\ pc' = [pc EXCEPT ![t] = "back"]
    /\ UNCHANGED <<stack, saved, wait, interp, before, entry, plugin_list>>
    /\ UNCHANGED runtimeVars
    /\ UNCHANGED delegateVars
    /\ UNCHANGED histVars
    /\ UNCHANGED unloadVars
    /\ UNCHANGED proxyVars

\* ---------------------------------------------- hooks and unload callbacks
\* What a script's unload callback does: it returns, it raises, or it calls
\* hexchat.unhook() with its own handle.
UnloadCallbacks == {"returns", "raises", "unhooks"}

\* delete_interp()'s locals before the loop; hooks0 is history: the
\* HC_UNLOAD_KEY list as it was when the loop began.
NoDelete == [i |-> 0, size |-> 0, hooks0 |-> <<>>]

\* One entry of the teardown history.
Ev(ev, n) == [ev |-> ev, n |-> n]

\* Script code of a plugin runs on thread t, in a hook callback of it.
InScript(t) ==
    /\ pc[t] = "py"
    /\ stack[t] # <<>>
    /\ Top(t).kind = "hook"
    /\ cur = Top(t).target

\* The CallbackData of a new hook: hook is data->hook, set; freed tells
\* that PyMem_RawFree(data) ran.  unhooks and late are history: the calls of
\* hexchat_unhook() with the hook's handle, and the invocations of its Python
\* callback after the first of them; both stop counting at MaxCount.
NewData == [hook |-> TRUE, freed |-> FALSE, unhooks |-> 0, late |-> 0]

Counted(n) == IF n < MaxCount THEN n + 1 ELSE n

InList(list, h) == \E j \in DOMAIN list : list[j] = h

HookAlwaysSet(d) == TRUE

\* if (data->hook) of py_unhook() and py_hook_free_fn(), and the negation of
\* if (!data->hook) of hc_all_callback_inner().
HookIsSet(d) == d.hook

\* hexchat_unhook(ph, hook); data->hook = NULL;
Unhooked(d) == [d EXCEPT !.hook = FALSE, !.unhooks = Counted(@)]

\* py_hook_free_fn(): the destructor of a hook capsule.
py_hook_free_fn(d) ==
    IF HookIsSet(d) THEN [Unhooked(d) EXCEPT !.freed = TRUE]
    ELSE [d EXCEPT !.freed = TRUE]

\* enum CB_VER: the kinds of hook callback.
Versions == {"CBV_PRNT", "CBV_SRV", "CBV_PRNT_ATTR", "CBV_SRV_ATTR",
             "CBV_CMD", "CBV_TIMER"}

\* The values the host defines for an event callback's result, as the text
\* of the TypeError names them: EAT_NONE(0) ... EAT_ALL(3).
HEXCHAT_EAT_NONE == 0
HEXCHAT_EAT_ALL == 3

\* What a Python callback gives back: it raises, or returns an object that
\* is no integer, an integer no C long of any build holds (huge), or the
\* integer hi * 2^32 + lo with lo a signed 32-bit word.
PyReturn(kind, hi, lo) == [kind |-> kind, hi |-> hi, lo |-> lo]

PyReturns ==
    {PyReturn(k, 0, 0) : k \in {"raise", "object", "huge"}}
        \cup {PyReturn("int", hi, lo) : hi \in 0..1, lo \in -1..4}

\* The bits of a C long: 32 where long is as wide as int, 64 otherwise.
LongWidths == {32, 64}

NoCallback == [ver |-> "none", ret |-> PyReturn("none", 0, 0), retval |-> 0]

\* PyLong_AsLong(pyret) sets an error: no integer, or one outside C long.
PyLong_AsLong_fails(r, bits) ==
    \/ r.kind \in {"object", "huge"}
    \/ r.kind = "int" /\ bits = 32 /\ r.hi # 0

\* else if (ver != CBV_TIMER && ...): is the range of retval tested?
RangeTested(ver) == ver # "CBV_TIMER"

\* hc_all_callback_inner() after the call of the Python callback: retval
\* from pyret.  (int)PyLong_AsLong(pyret) keeps the low 32 bits.
hc_retval(ver, r, bits) ==
    IF r.kind = "raise" THEN HEXCHAT_EAT_NONE
    ELSE IF PyLong_AsLong_fails(r, bits) THEN HEXCHAT_EAT_NONE
    ELSE IF /\ RangeTested(ver)
            /\ ~(HEXCHAT_EAT_NONE <= r.lo /\ r.lo <= HEXCHAT_EAT_ALL)
         THEN HEXCHAT_EAT_NONE
    ELSE r.lo

\* hc_print_callback() ... hc_server_attrs_callback(): the host calls a hook
\* callback of p1 of kind ver; hc_all_callback_inner() begins its switch.
hc_callback(ver) ==
    /\ pc[Main] = "idle"
    /\ interp["p1"] = "active"
    /\ cbret' = [NoCallback EXCEPT !.ver = ver]
    /\ BeginSwitch(Main, "hook", 0, "p1")
    /\ UNCHANGED <<unload_hooks, hooks, registered, hookRefs, hookData, del,
                   tdlog>>
    /\ UNCHANGED <<saved, wait, interp>>
    /\ UNCHANGED runtimeVars
    /\ UNCHANGED delegateVars
    /\ UNCHANGED histVars
    /\ UNCHANGED proxyVars
    /\ UNCHANGED entryVars

\* hc_all_callback_inner(): the Python callback gives back r, retval is
\* computed and the error, if any, printed; the switch back is next.
callback_return(t, r, bits) ==
    /\ pc[t] = "py"
    /\ stack[t] # <<>>
    /\ Top(t).kind = "hook"
    /\ cbret.ver # "none"
    /\ cbret' = [cbret EXCEPT !.ret = r,
                              !.retval = hc_retval(cbret.ver, r, bits)]
    /\ pc' = [pc EXCEPT ![t] = "back"]
    /\ UNCHANGED <<unload_hooks, hooks, registered, hookRefs, hookData, del,
                   tdlog>>
    /\ UNCHANGED <<stack, saved, wait, interp, before>>
    /\ UNCHANGED runtimeVars
    /\ UNCHANGED delegateVars
    /\ UNCHANGED histVars
    /\ UNCHANGED proxyVars
    /\ UNCHANGED entryVars

\* py_hook_unload(): hexchat.hook_unload(cb); interp_hook_unload() makes the
\* capsule and appends it to the HC_UNLOAD_KEY list.
py_hook_unload(t, cb) ==
    /\ InScript(t)
    /\ Len(registered) < MaxUnload
    /\ main_thread_check(cur) = 0
    /\ registered' = Append(registered, cb)
    /\ unload_hooks' = Append(unload_hooks, Len(registered) + 1)
    /\ UNCHANGED <<hooks, hookRefs, hookData, del, tdlog>>
    /\ UNCHANGED <<pc, stack, saved, wait, interp, before>>
    /\ UNCHANGED runtimeVars
    /\ UNCHANGED delegateVars
    /\ UNCHANGED proxyVars
    /\ UNCHANGED entryVars
    /\ UNCHANGED histVars
    /\ UNCHANGED cbret

\* py_all_hook_inner() for hexchat.hook_command(): the host hook is made, its
\* capsule is appended to the HC_HOOKS_KEY list and returned to the script,
\* which keeps the handle (held) or drops it.
py_hook_command(t, held) ==
    /\ InScript(t)
    /\ Len(hookRefs) < MaxHooks
    /\ main_thread_check(cur) = 0
    /\ hookRefs' = Append(hookRefs, held)
    /\ hooks' = Append(hooks, Len(hookRefs) + 1)
    /\ hookData' = Append(hookData, NewData)
    /\ hostCalls' = hostCalls \cup {HostCall("hook_command", t)}
    /\ UNCHANGED <<unload_hooks, registered, del, tdlog, readHist>>
    /\ UNCHANGED <<pc, stack, saved, wait, interp, before>>
    /\ UNCHANGED runtimeVars
    /\ UNCHANGED delegateVars
    /\ UNCHANGED proxyVars
    /\ UNCHANGED entryVars
    /\ UNCHANGED cbret

\* interp_unhook_unload(): pyhooks.remove(hook); a ValueError is cleared.
interp_unhook_unload(list, k) == SelectSeq(list, LAMBDA h : h # k)

\* py_unhook() with the handle of unload hook k.
py_unhook(t, k) ==
    /\ InScript(t)
    /\ k \in 1..Len(registered)
    /\ main_thread_check(cur) = 0
    /\ unload_hooks' = interp_unhook_unload(unload_hooks, k)
    /\ UNCHANGED <<hooks, registered, hookRefs, hookData, del, tdlog>>
    /\ UNCHANGED <<pc, stack, saved, wait, interp, before>>
    /\ UNCHANGED runtimeVars
    /\ UNCHANGED delegateVars
    /\ UNCHANGED proxyVars
    /\ UNCHANGED entryVars
    /\ UNCHANGED histVars
    /\ UNCHANGED cbret

\* py_unhook() with the handle of hook h, which the script has kept: the
\* host hook is removed once, and the capsule leaves the HC_HOOKS_KEY list.
py_unhook_hook(t, h) ==
    /\ InScript(t)
    /\ h \in 1..Len(hookData)
    /\ hookRefs[h]
    /\ main_thread_check(cur) = 0
    /\ IF HookIsSet(hookData[h])
       THEN /\ hookData' = [hookData EXCEPT ![h] = Unhooked(@)]
            /\ hooks' = SelectSeq(hooks, LAMBDA c : c # h)
            /\ hostCalls' = hostCalls \cup {HostCall("unhook", t)}
       ELSE UNCHANGED <<hookData, hooks, hostCalls>>
    /\ UNCHANGED <<unload_hooks, registered, hookRefs, del, tdlog, readHist>>
    /\ UNCHANGED <<pc, stack, saved, wait, interp, before>>
    /\ UNCHANGED runtimeVars
    /\ UNCHANGED delegateVars
    /\ UNCHANGED proxyVars
    /\ UNCHANGED entryVars
    /\ UNCHANGED cbret

\* The script drops the handle of hook h.  The capsule was made with
\* PyCapsule_New(hook, "hook", py_hook_free_fn): when the HC_HOOKS_KEY list
\* does not hold it either, its destructor runs.
CapsuleDrop(t, h) ==
    /\ InScript(t)
    /\ h \in 1..Len(hookData)
    /\ hookRefs[h]
    /\ hookRefs' = [hookRefs EXCEPT ![h] = FALSE]
    /\ hookData' = IF InList(hooks, h) THEN hookData
                   ELSE [hookData EXCEPT ![h] = py_hook_free_fn(@)]
    /\ UNCHANGED <<unload_hooks, hooks, registered, del, tdlog>>
    /\ UNCHANGED <<pc, stack, saved, wait, interp, before>>
    /\ UNCHANGED runtimeVars
    /\ UNCHANGED delegateVars
    /\ UNCHANGED histVars
    /\ UNCHANGED proxyVars
    /\ UNCHANGED entryVars
    /\ UNCHANGED cbret

\* hc_all_callback_inner() for hook h, whose CallbackData the host passes:
\* with data->hook NULL it returns HEXCHAT_EAT_NONE at once, otherwise it
\* switches to the owner's thread state and invokes the Python callback.
hc_all_callback_inner(h) ==
    /\ pc[Main] = "idle"
    /\ h \in 1..Len(hookData)
    /\ ~hookData[h].freed
    /\ IF HookIsSet(hookData[h])
       THEN /\ hookData' = [hookData EXCEPT ![h].late =
                               IF hookData[h].unhooks > 0 THEN Counted(@)
                               ELSE @]
            /\ BeginSwitch(Main, "hook", 0, "p1")
       ELSE UNCHANGED <<hookData, pc, stack, before>>
    /\ UNCHANGED <<unload_hooks, hooks, registered, hookRefs, del, tdlog>>
    /\ UNCHANGED <<saved, wait, interp>>
    /\ UNCHANGED runtimeVars
    /\ UNCHANGED delegateVars
    /\ UNCHANGED histVars
    /\ UNCHANGED proxyVars
    /\ UNCHANGED entryVars
    /\ UNCHANGED cbret

\* delete_interp(): the test that the switch happened, and
\* size = PyObject_Length(pyunload_hooks).
DeleteStart(t) ==
    /\ pc[t] = "entered"
    /\ Top(t).kind = "delete"
    /\ IF cur = Top(t).target
       THEN /\ del' = [i |-> 0, size |-> Len(unload_hooks),
                       hooks0 |-> unload_hooks]
            /\ pc' = [pc EXCEPT ![t] = "del_loop"]
       ELSE /\ pc' = [pc EXCEPT ![t] = "back"]
            /\ UNCHANGED del
    /\ UNCHANGED <<unload_hooks, hooks, registered, hookRefs, hookData, tdlog>>
    /\ UNCHANGED <<stack, saved, wait, interp, before>>
    /\ UNCHANGED runtimeVars
    /\ UNCHANGED delegateVars
    /\ UNCHANGED proxyVars
    /\ UNCHANGED entryVars
    /\ UNCHANGED histVars
    /\ UNCHANGED cbret

\* PyObject_CallFunction(pycallable, "O", pyuserdata) and, when it fails,
\* PyErr_Print().
unload_callback(log, k, cb) ==
    IF cb = "raises" THEN log \o <<Ev("unload", k), Ev("print", k)>>
    ELSE Append(log, Ev("unload", k))

\* delete_interp(): one pass of the loop over 0 .. size - 1.  With the list
\* shorter than size, PyList_GetItem() and then PyCapsule_GetPointer()
\* return NULL and evt_data->callable reads through the null pointer.
DeleteUnloadHook(t) ==
    /\ pc[t] = "del_loop"
    /\ del.i < del.size
    /\ IF del.i + 1 > Len(unload_hooks)
       THEN /\ pc' = [pc EXCEPT ![t] = "crashed"]
            /\ UNCHANGED <<unload_hooks, del, tdlog>>
       ELSE LET k  == unload_hooks[del.i + 1]
                cb == registered[k]
            IN /\ tdlog' = unload_callback(tdlog, k, cb)
               /\ unload_hooks' = IF cb = "unhooks"
                                  THEN interp_unhook_unload(unload_hooks, k)
                                  ELSE unload_hooks
               /\ del' = [del EXCEPT !.i = @ + 1]
               /\ UNCHANGED pc
    /\ UNCHANGED <<hooks, registered, hookRefs, hookData>>
    /\ UNCHANGED <<stack, saved, wait, interp, before>>
    /\ UNCHANGED runtimeVars
    /\ UNCHANGED delegateVars
    /\ UNCHANGED proxyVars
    /\ UNCHANGED entryVars
    /\ UNCHANGED histVars
    /\ UNCHANGED cbret

\* The destructors (py_hook_free_fn) of the capsules in freed run.
FreeEvents(freed) == [j \in 1..Len(freed) |-> Ev("free", freed[j])]

destroy_data_skipped(log, freed) == log

\* interp_destroy_data(): PyDict_DelItemString(pydict, HC_DATA_KEY) releases
\* the private store; the capsules only the lists refer to are destroyed.
interp_destroy_data(log, freed) ==
    Append(log, Ev("store", 0)) \o FreeEvents(freed)

\* delete_interp(): after the loop, interp_destroy_data().
DeleteDestroyData(t) ==
    /\ pc[t] = "del_loop"
    /\ del.i >= del.size
    /\ LET freed == SelectSeq(hooks, LAMBDA h : ~hookRefs[h])
       IN /\ tdlog' = interp_destroy_data(tdlog, freed)
          /\ hostCalls' = IF freed = <<>> THEN hostCalls
                          ELSE hostCalls \cup {HostCall("unhook", t)}
    /\ hooks' = SelectSeq(hooks, LAMBDA h : hookRefs[h])
    /\ hookData' = [h \in DOMAIN hookData |->
                        IF InList(hooks, h) /\ ~hookRefs[h]
                        THEN py_hook_free_fn(hookData[h]) ELSE hookData[h]]
    /\ unload_hooks' = <<>>
    /\ pc' = [pc EXCEPT ![t] = "del_end"]
    /\ UNCHANGED <<registered, hookRefs, del, readHist>>
    /\ UNCHANGED <<stack, saved, wait, interp, before>>
    /\ UNCHANGED runtimeVars
    /\ UNCHANGED delegateVars
    /\ UNCHANGED proxyVars
    /\ UNCHANGED entryVars
    /\ UNCHANGED cbret

\* Py_EndInterpreter(): the interpreter's modules are cleared, which
\* destroys the capsules the script still held, and the interpreter ends.
EndInterpreter(log, left) == Append(log \o FreeEvents(left), Ev("end", 0))

\* delete_interp(): Py_EndInterpreter(ts); no thread state is current then.
DeleteEnd(t) ==
    /\ pc[t] = "del_end"
    /\ tdlog' = EndInterpreter(tdlog, hooks)
    /\ hostCalls' = IF hooks = <<>> THEN hostCalls
                    ELSE hostCalls \cup {HostCall("unhook", t)}
    /\ hooks' = <<>>
    /\ hookData' = [h \in DOMAIN hookData |->
                        IF hookData[h].freed THEN hookData[h]
                        ELSE py_hook_free_fn(hookData[h])]
    /\ interp' = [interp EXCEPT ![Top(t).target] = "destroyed"]
    /\ cur' = NULL
    /\ pc' = [pc EXCEPT ![t] = "back"]
    /\ UNCHANGED <<unload_hooks, registered, hookRefs, del, readHist>>
    /\ UNCHANGED <<gil, py_main_has_gil, py_gilstate, stack, saved, wait,
                   before>>
    /\ UNCHANGED delegateVars
    /\ UNCHANGED proxyVars
    /\ UNCHANGED entryVars
    /\ UNCHANGED cbret


\* --------------------------------------------------- host command callbacks
\* The host commands the plugin registers: /LOAD, /UNLOAD, /RELOAD and /MPY,
\* and the host's call of hexchat_plugin_deinit().  entry names the caller
\* of unload_plugin() while the main thread is inside it.
MpyCommands == {"LOAD", "UNLOAD", "RELOAD", "LIST"}

\* Where the caller of unload_plugin() goes on when it returns: found is
\* its result HEXCHAT_EAT_ALL.  mpy_callback reaches its
\* switch_threadstate_back(); hexchat_plugin_deinit its switch_threadstate().
AfterUnload(e, found) ==
    IF e = "unload_plugin_callback" THEN "idle"
    ELSE IF e = "reload_plugin_callback"
         THEN IF found THEN "load_plugin" ELSE "idle"
    ELSE IF e = "plugin_list_clear" THEN "deinit_switch"
    ELSE IF e = "mpy_reload" /\ found THEN "load_plugin"
    ELSE "back"

\* A step of the main thread that only moves it on, to pc value at.
MoveOn(t, at, e) ==
    /\ pc' = [pc EXCEPT ![t] = at]
    /\ entry' = e
    /\ UNCHANGED <<stack, saved, wait, interp, before, plugin_list>>
    /\ UNCHANGED runtimeVars
    /\ UNCHANGED delegateVars
    /\ UNCHANGED histVars
    /\ UNCHANGED unloadVars
    /\ UNCHANGED proxyVars
    /\ UNCHANGED console

\* The host's event loop is free to run a callback.
HostIdle(t) == pc[t] = "idle" /\ stack[t] = <<>>

\* unload_plugin_callback(): return unload_plugin(word_eol[2]).
unload_plugin_callback(t) ==
    /\ HostIdle(t)
    /\ MoveOn(t, "unload_plugin", "unload_plugin_callback")

\* reload_plugin_callback(): unload_plugin(), then load_plugin().
reload_plugin_callback(t) ==
    /\ HostIdle(t)
    /\ MoveOn(t, "unload_plugin", "reload_plugin_callback")

\* hexchat_plugin_deinit(): close_console(), delete_console_interp(), then
\* delete_plugins(): plugin_list_clear() calls unload_plugin() for each
\* plugin in the list.
hexchat_plugin_deinit(t) ==
    /\ HostIdle(t)
    /\ MoveOn(t, IF plugin_list # {} THEN "unload_plugin"
                 ELSE "deinit_switch", "plugin_list_clear")

\* tsinfo = switch_threadstate(py_g_main_threadstate) as the first
\* statement of a callback.
SwitchToMain(t, kind) ==
    /\ BeginSwitch(t, kind, 0, MainTS)
    /\ UNCHANGED <<saved, wait, interp>>
    /\ UNCHANGED runtimeVars
    /\ UNCHANGED delegateVars
    /\ UNCHANGED histVars
    /\ UNCHANGED unloadVars
    /\ UNCHANGED proxyVars
    /\ UNCHANGED entryVars

load_plugin_callback(t) ==
    /\ HostIdle(t)
    /\ SwitchToMain(t, "load")

mpy_callback(t) ==
    /\ HostIdle(t)
    /\ SwitchToMain(t, "mpy")

\* load_plugin_callback() after its switch: the path is tested for ".py"
\* with Python string methods and load_plugin() is called when it has it.
load_plugin_test(t, ispy) ==
    /\ pc[t] = "entered"
    /\ Top(t).kind = "load"
    /\ MoveOn(t, IF ispy THEN "load_plugin" ELSE "back", entry)

\* mpy_callback() after its switch: the subcommand is upper-cased with a
\* Python string method and dispatched.
mpy_command(t, cmd) ==
    /\ pc[t] = "entered"
    /\ Top(t).kind = "mpy"
    /\ MoveOn(t, IF cmd = "LOAD" THEN "load_plugin"
                 ELSE IF cmd = "LIST" THEN "back"
                 ELSE "unload_plugin",
              IF cmd = "UNLOAD" THEN "mpy_unload"
              ELSE IF cmd = "RELOAD" THEN "mpy_reload"
              ELSE entry)

\* load_plugin(): os.path and file objects are made and the file is
\* opened; when that fails the function returns, to load_plugin_callback
\* or mpy_callback, which go on to switch_threadstate_back(), or to
\* reload_plugin_callback, which returns.  Else create_interp() is called,
\* which begins with switch_threadstate(py_g_main_threadstate).  The one
\* script there is is that of plugin p1.
load_plugin(t, found) ==
    /\ pc[t] = "load_plugin"
    /\ found => interp["p1"] = "destroyed"
    /\ IF found
       THEN BeginSwitch(t, "create", 0, MainTS)
       ELSE /\ pc' = [pc EXCEPT ![t] =
                         IF stack[t] = <<>> THEN "idle" ELSE "back"]
            /\ UNCHANGED <<stack, before>>
    /\ UNCHANGED <<saved, wait, interp>>
    /\ UNCHANGED runtimeVars
    /\ UNCHANGED delegateVars
    /\ UNCHANGED histVars
    /\ UNCHANGED unloadVars
    /\ UNCHANGED proxyVars
    /\ UNCHANGED entryVars

\* create_interp(): Py_NewInterpreter() makes the interpreter and its
\* thread state, which is the current one from then on, and
\* interp_init_data() sets up its private data.
Py_NewInterpreter(t) ==
    /\ pc[t] = "entered"
    /\ Top(t).kind = "create"
    /\ interp' = [interp EXCEPT !["p1"] = "new"]
    /\ cur' = "p1"
    /\ pc' = [pc EXCEPT ![t] = "config"]
    /\ UNCHANGED <<gil, py_main_has_gil, py_gilstate, stack, saved, wait,
                   before>>
    /\ UNCHANGED delegateVars
    /\ UNCHANGED histVars
    /\ UNCHANGED unloadVars
    /\ UNCHANGED proxyVars
    /\ UNCHANGED entryVars

\* What create_interp_callback() returns: the result of PyRun_SimpleFile(),
\* or -1 when the script has not set __module_name__, __module_version__
\* and __module_description__.
ConfigResults == {0, -1}

\* if (configfunc(pynew_interp_threadstate, data)) in create_interp().
ConfigNeverFails(ret) == FALSE

ConfigFailed(ret) == ret # 0

\* create_interp_callback() and the test of its result: the script is run;
\* with all three names set the plugin is added to the list
\* (plugin_list_add), else create_interp() calls delete_interp().
create_interp_callback(t, ret) ==
    /\ pc[t] = "config"
    /\ interp' = [interp EXCEPT !["p1"] = IF ret = 0 THEN "active"
                                          ELSE "failed"]
    /\ plugin_list' = IF ret = 0 THEN plugin_list \cup {"p1"}
                      ELSE plugin_list
    /\ IF ConfigFailed(ret)
       THEN /\ BeginSwitch(t, "delete", 0, "p1")
            /\ entry' = "create_interp"
       ELSE /\ pc' = [pc EXCEPT ![t] = "created"]
            /\ UNCHANGED <<stack, before, entry>>
    /\ UNCHANGED <<saved, wait>>
    /\ UNCHANGED runtimeVars
    /\ UNCHANGED delegateVars
    /\ UNCHANGED histVars
    /\ UNCHANGED unloadVars
    /\ UNCHANGED proxyVars
    /\ UNCHANGED console

\* create_interp(): delete_interp() has returned; retval = NULL.
create_interp_deleted(t) ==
    /\ pc[t] = "after"
    /\ Top(t).kind = "delete"
    /\ entry = "create_interp"
    /\ stack' = [stack EXCEPT ![t] = SubSeq(@, 1, Len(@) - 1)]
    /\ before' = IF before.on
                 THEN [before EXCEPT !.snaps[t] = SubSeq(@, 1, Len(@) - 1)]
                 ELSE before
    /\ pc' = [pc EXCEPT ![t] = "created"]
    /\ entry' = "none"
    /\ UNCHANGED <<saved, wait, interp, plugin_list>>
    /\ UNCHANGED runtimeVars
    /\ UNCHANGED delegateVars
    /\ UNCHANGED histVars
    /\ UNCHANGED unloadVars
    /\ UNCHANGED proxyVars
    /\ UNCHANGED console

\* create_interp(): PyThreadState_Swap(py_g_main_threadstate), before
\* switch_threadstate_back(tsinfo).
create_interp_swap(t) ==
    /\ pc[t] = "created"
    /\ Top(t).kind = "create"
    /\ cur' = MainTS
    /\ pc' = [pc EXCEPT ![t] = "back"]
    /\ UNCHANGED <<gil, py_main_has_gil, py_gilstate, stack, saved, wait,
                   interp, before>>
    /\ UNCHANGED delegateVars
    /\ UNCHANGED histVars
    /\ UNCHANGED unloadVars
    /\ UNCHANGED proxyVars
    /\ UNCHANGED entryVars

\* create_interp() returns and load_plugin() returns HEXCHAT_EAT_ALL to its
\* caller.
create_interp_return(t) ==
    /\ pc[t] = "after"
    /\ Top(t).kind = "create"
    /\ stack' = [stack EXCEPT ![t] = SubSeq(@, 1, Len(@) - 1)]
    /\ before' = IF before.on
                 THEN [before EXCEPT !.snaps[t] = SubSeq(@, 1, Len(@) - 1)]
                 ELSE before
    /\ pc' = [pc EXCEPT ![t] = IF Len(stack[t]) = 1 THEN "idle" ELSE "back"]
    /\ UNCHANGED <<saved, wait, interp>>
    /\ UNCHANGED runtimeVars
    /\ UNCHANGED delegateVars
    /\ UNCHANGED histVars
    /\ UNCHANGED unloadVars
    /\ UNCHANGED proxyVars
    /\ UNCHANGED entryVars

\* unload_plugin(): PyUnicode_FromString(name_or_path),
\* plugin_list_remove(pyname), Py_DECREF(pyname); then delete_interp() when
\* the plugin was in the list, else the return of HEXCHAT_EAT_NONE.
\* Py_EndInterpreter() needs the interpreter's other threads to have ended.
unload_plugin(t) ==
    /\ pc[t] = "unload_plugin"
    /\ IF "p1" \in plugin_list
       THEN /\ \A w \in Workers :
                   HomeOf(WorkerTS(w)) = "p1" => pc[w] = "exited"
            /\ BeginSwitch(t, "delete", 0, "p1")
            /\ UNCHANGED entry
       ELSE /\ pc' = [pc EXCEPT ![t] = AfterUnload(entry, FALSE)]
            /\ entry' = "none"
            /\ UNCHANGED <<stack, before>>
    /\ plugin_list' = plugin_list \ {"p1"}
    /\ UNCHANGED <<saved, wait, interp>>
    /\ UNCHANGED runtimeVars
    /\ UNCHANGED delegateVars
    /\ UNCHANGED histVars
    /\ UNCHANGED unloadVars
    /\ UNCHANGED proxyVars
    /\ UNCHANGED console

\* unload_plugin() after delete_interp() has returned:
\* PyUnicode_AsUTF8(pd->name), Py_DECREF(pd->name), Py_DECREF(pd->path),
\* PyMem_RawFree(pd) and the return of HEXCHAT_EAT_ALL.
unload_plugin_free(t) ==
    /\ pc[t] = "after"
    /\ Top(t).kind = "delete"
    /\ entry # "create_interp"
    /\ stack' = [stack EXCEPT ![t] = SubSeq(@, 1, Len(@) - 1)]
    /\ before' = IF before.on
                 THEN [before EXCEPT !.snaps[t] = SubSeq(@, 1, Len(@) - 1)]
                 ELSE before
    /\ pc' = [pc EXCEPT ![t] = AfterUnload(entry, TRUE)]
    /\ entry' = "none"
    /\ UNCHANGED <<saved, wait, interp, plugin_list>>
    /\ UNCHANGED runtimeVars
    /\ UNCHANGED delegateVars
    /\ UNCHANGED histVars
    /\ UNCHANGED unloadVars
    /\ UNCHANGED proxyVars
    /\ UNCHANGED console

\* hexchat_plugin_deinit() after delete_plugins():
\* switch_threadstate(py_g_main_threadstate), its result not kept.
deinit_switch(t) ==
    /\ pc[t] = "deinit_switch"
    /\ SwitchToMain(t, "deinit")

\* hexchat_plugin_deinit(): ret = Py_FinalizeEx().  The runtime is gone; no
\* other thread takes its lock again.
Py_FinalizeEx(t) ==
    /\ pc[t] = "entered"
    /\ Top(t).kind = "deinit"
    /\ pc' = [pc EXCEPT ![t] = "finalized"]
    /\ interp' = [p \in PluginTS |-> "destroyed"]
    /\ cur' = NULL
    /\ UNCHANGED <<gil, py_main_has_gil, py_gilstate, stack, saved, wait,
                   before>>
    /\ UNCHANGED delegateVars
    /\ UNCHANGED histVars
    /\ UNCHANGED unloadVars
    /\ UNCHANGED proxyVars
    /\ UNCHANGED entryVars

\* A command or hook callback returns to the host's event loop.
CallbackFinish(t) ==
    /\ pc[t] = "after"
    /\ Top(t).kind \notin {"delete", "create"}
    /\ Finish(t)

\* ------------------------------------------------------------------- init
InitCommon ==
    /\ py_main_has_gil = 0
    /\ py_gilstate = "UNLOCKED"
    /\ stack = [t \in Threads |-> <<>>]
    /\ wait = [t \in Threads |-> 0]
    /\ timers = <<>>
    /\ calls = <<>>
    /\ queue = <<>>
    /\ got = <<>>
    /\ ares = <<>>
    /\ execLog = <<>>
    /\ posted = <<>>
    /\ lastRead = [t \in Threads |-> NoRead]
    /\ interp = [p \in PluginTS |-> "active"]
    /\ hostCalls = {}
    /\ readHist = <<>>
    /\ unload_hooks = <<>>
    /\ hooks = <<>>
    /\ registered = <<>>
    /\ hookRefs = <<>>
    /\ hookData = <<>>
    /\ cbret = NoCallback
    /\ del = NoDelete
    /\ tdlog = <<>>
    /\ heap = Heap0
    /\ cache = [a \in 1..MaxObjs |-> {}]
    /\ pyerr = [ts \in ThreadStates |-> "none"]
    /\ op = NoOp
    /\ gets = {}
    /\ entry = "none"
    /\ plugin_list = PluginTS
    /\ console = NoConsole

NoHistory(on) == [on |-> on, snaps |-> [t \in Threads |-> <<>>]]

\* Plugin p1 is loaded and has started the worker threads in started, which
\* wait for the lock; the host main thread is in its event loop.
InitStarted(started) ==
    /\ InitCommon
    /\ gil = NoThread
    /\ cur = NULL
    /\ pc = [t \in Threads |-> IF t = Main THEN "idle"
                               ELSE IF t \in started THEN "gilwait"
                               ELSE "exited"]
    /\ saved = [t \in Threads |-> IF t \in started THEN WorkerTS(t) ELSE NULL]
    /\ before = NoHistory(FALSE)

\* The steps of switch_threadstate() / switch_threadstate_back() and of the
\* interpreter's lock, common to every specification below.
SwitchSteps ==
    \/ \E t \in Threads : SwitchCheck(t)
    \/ \E t \in Threads : SwitchEnsure(t)
    \/ \E t \in Threads : SwitchBack(t)
    \/ \E t \in Threads : Finish(t)
    \/ \E t \in Threads : Yield(t)
    \/ \E t \in Threads : Resume(t)

\* A worker's own code, not itself inside an InterpCall, makes one.
ScriptInterpCall(t, c) == stack[t] = <<>> /\ InterpCall(t, c, MaxDepth)

\* The steps every timer callback goes through.
TimerSteps ==
    \/ Pump
    \/ \E t \in Threads : TimerInvoke(t)
    \/ \E t \in Threads : TimerPut(t)

\* The dispatcher and the teardown: a worker thread of p1 makes Delegate
\* calls, from its own code or from inside an InterpCall, and ends; the host
\* pumps its timers and unloads the plugin.
Init == InitStarted({"w1"})

Next ==
    \/ SwitchSteps
    \/ TimerSteps
    \/ \E t \in Workers : \E c \in Contexts : ScriptInterpCall(t, c)
    \/ \E t \in Threads : Invoke(t)
    \/ \E t \in Threads : CallReturn(t)
    \/ \E t \in Workers : \E c \in Callables : \E a \in ArgsOf(c) :
           \E async \in BOOLEAN : Delegate_call(t, c, a, async)
    \/ \E t \in Threads : QGetReturn(t)
    \/ \E t \in Workers : WorkerExit(t)
    \/ \E p \in PluginTS : Unload(p)
    \/ \E t \in Threads : DeleteBody(t)

Spec == Init /\ [][Next]_vars

\* The switching protocol under concurrency: host hook callbacks on the main
\* thread and InterpCall calls on the main thread and on a worker thread.
NextSwitch ==
    \/ SwitchSteps
    \/ \E p \in PluginTS : HookCallback(p)
    \/ \E t \in Threads : \E c \in Contexts : InterpCall(t, c, MaxDepth)
    \/ \E t \in Threads : Invoke(t)
    \/ \E t \in Threads : CallReturn(t)
    \/ \E t \in Workers : WorkerExit(t)

SpecSwitch == Init /\ [][NextSwitch]_vars

\* The hexchat module: script code calls the host API from hook callbacks on
\* the main thread, from a worker thread and from inside InterpCalls.
NextApi ==
    \/ SwitchSteps
    \/ \E p \in PluginTS : HookCallback(p)
    \/ \E t \in Workers : \E c \in Contexts : ScriptInterpCall(t, c)
    \/ \E t \in Threads : Invoke(t)
    \/ \E t \in Threads : CallReturn(t)
    \/ \E t \in Threads : \E fn \in ApiFunctions : ApiCall(t, fn)

SpecApi == Init /\ [][NextApi]_vars

\* The same scripts, which also call the methods of Context objects.
NextCtx ==
    \/ NextApi
    \/ \E t \in Threads : Context_prnt(t)

SpecCtx == Init /\ [][NextCtx]_vars

BoundTargets ==
    Contexts \cup {WorkerTS(w) : w \in {u \in Workers : pc[u] # "exited"}}

\* Script code run by a hook callback calls an InterpCall object.
HookInterpCall(c) ==
    /\ c \in BoundTargets
    /\ Len(stack[Main]) = 1
    /\ Top(Main).kind = "hook"
    /\ InterpCall(Main, c, MaxDepth + 1)

\* Delegates on the host main thread: hook callbacks whose script code
\* makes Delegate calls and reads the AsyncResults, directly or from inside
\* an InterpCall, while the worker thread of p1 runs.  A synchronous call the
\* main thread has queued blocks it in queue.get() for good: the timer that
\* would put the record runs on the main thread only.
NextMain ==
    \/ SwitchSteps
    \/ TimerSteps
    \/ \E p \in PluginTS : HookCallback(p)
    \/ \E c \in ThreadStates : HookInterpCall(c)
    \/ \E t \in Threads : Invoke(t)
    \/ \E t \in Threads : CallReturn(t)
    \/ \E c \in Callables : \E a \in ArgsOf(c) : \E async \in BOOLEAN :
           Delegate_call(Main, c, a, async)
    \/ \E id \in 1..MaxCalls : \E f \in {"result", "error"} :
           ReadStart(Main, id, f)
    \/ ReadFinish(Main)
    \/ ReadReturn(Main)

SpecMain == Init /\ [][NextMain]_vars

\* The AsyncResult: both workers make asynchronous Delegate calls from
\* their own code and read the results while the host pumps its timers.
InitRead == InitStarted(Workers)

NextRead ==
    \/ SwitchSteps
    \/ TimerSteps
    \/ \E t \in Workers : \E c \in Callables : \E a \in ArgsOf(c) :
           Delegate_call(t, c, a, TRUE)
    \/ \E t \in Workers : \E id \in 1..MaxCalls : \E f \in {"result", "error"} :
           ReadStart(t, id, f)
    \/ \E t \in Threads : ReadFinish(t)
    \/ \E t \in Threads : ReadReturn(t)

SpecRead == InitRead /\ [][NextRead]_vars

\* Asynchronous Delegates on every thread: script code of hook callbacks on
\* the main thread and of the worker thread makes asynchronous Delegate
\* calls and reads the AsyncResults, its own and the other thread's.
NextAsync ==
    \/ SwitchSteps
    \/ TimerSteps
    \/ \E p \in PluginTS : HookCallback(p)
    \/ \E t \in Threads : Invoke(t)
    \/ \E t \in Threads : CallReturn(t)
    \/ \E t \in Threads : \E c \in Callables : \E a \in ArgsOf(c) :
           Delegate_call(t, c, a, TRUE)
    \/ \E t \in Threads : \E id \in 1..MaxCalls : \E f \in {"result", "error"} :
           ReadStart(t, id, f)
    \/ \E t \in Threads : ReadFinish(t)
    \/ \E t \in Threads : ReadReturn(t)

SpecAsync == Init /\ [][NextAsync]_vars

\* The synchronous round trip under the scheduling the host and the runtime
\* give: the host's event loop runs every ready timer callback to its end,
\* a thread that owns the lock hands it to a thread that asks for it, and a
\* blocked Queue.get() returns once a record is there and the lock is free.
NextLive ==
    \/ SwitchSteps
    \/ TimerSteps
    \/ \E t \in Workers : \E c \in Callables : \E a \in ArgsOf(c) :
           \E async \in BOOLEAN : Delegate_call(t, c, a, async)
    \/ \E t \in Threads : QGetReturn(t)

Fairness ==
    /\ WF_vars(TimerSteps)
    /\ WF_vars(SwitchCheck(Main))
    /\ SF_vars(SwitchEnsure(Main))
    /\ SF_vars(Resume(Main))
    /\ WF_vars(SwitchBack(Main))
    /\ WF_vars(Finish(Main))
    /\ \A w \in Workers : SF_vars(Yield(w)) /\ SF_vars(QGetReturn(w))

SpecLive == Init /\ [][NextLive]_vars /\ Fairness

\* The teardown: the host calls hooks of p1 on its main thread, in which the
\* script registers hooks and unload callbacks and unhooks them; the host
\* then unloads the plugin.  p1 has no worker threads.
InitUnload == InitStarted({})

NextUnload ==
    \/ HookCallback("p1")
    \/ Invoke(Main)
    \/ \E cb \in UnloadCallbacks : py_hook_unload(Main, cb)
    \/ \E held \in BOOLEAN : py_hook_command(Main, held)
    \/ \E k \in 1..MaxUnload : py_unhook(Main, k)
    \/ CallReturn(Main)
    \/ SwitchCheck(Main)
    \/ SwitchEnsure(Main)
    \/ SwitchBack(Main)
    \/ Finish(Main)
    \/ Unload("p1")
    \/ DeleteStart(Main)
    \/ DeleteUnloadHook(Main)
    \/ DeleteDestroyData(Main)
    \/ DeleteEnd(Main)

SpecUnload == InitUnload /\ [][NextUnload]_vars

\* The same, with a script that also unhooks its hooks and drops their
\* handles, and a host that delivers events to the hooks it was given.
NextHook ==
    \/ NextUnload
    \/ \E h \in 1..MaxHooks : py_unhook_hook(Main, h)
    \/ \E h \in 1..MaxHooks : CapsuleDrop(Main, h)
    \/ \E h \in 1..MaxHooks : hc_all_callback_inner(h)

SpecHook == InitUnload /\ [][NextHook]_vars

\* A script of plugin p1 that works with proxies of objects of the main
\* interpreter, on the host's main thread, followed from the start of its
\* hook callback through the proxy operations the callback makes.
InitProxy == InitStarted({})

NextProxy ==
    \/ ScriptHook
    \/ Invoke(Main)
    \/ \E p \in 1..MaxObjs, name \in Names : GetAttrBegin(Main, p, name)
    \/ \E p \in 1..MaxObjs, name \in Names :
          DelegateProxy_getattro(Main, p, name)
    \/ GetAttrFetch(Main)
    \/ GetAttrFinish(Main)
    \/ \E p \in 1..MaxObjs, args \in ArgLists, kwargs \in KwLists,
          j \in 0..MaxKw : CallBegin(Main, p, args, kwargs, j)
    \/ CallInvoke(Main)
    \/ CallFinish(Main)
    \/ Except(Main)
    \/ SwitchCheck(Main)
    \/ SwitchEnsure(Main)
    \/ SwitchBack(Main)

SpecProxy == InitProxy /\ [][NextProxy]_vars

\* A script of plugin p1 that makes proxies of its objects and compares
\* and hashes them.
NextCmp ==
    \/ ScriptHook
    \/ Invoke(Main)
    \/ SwitchCheck(Main)
    \/ SwitchEnsure(Main)
    \/ \E kind \in CmpTypes, obj \in 1..MaxObjs : MakeProxy(Main, kind, obj)
    \/ \E a \in 1..MaxObjs, b \in 1..MaxObjs : Compare(Main, a, b)

SpecCmp == InitProxy /\ [][NextCmp]_vars

\* A script of plugin p1 that calls InterpCall objects of interpcall.c in
\* its hook callback.
NextOld ==
    \/ ScriptHook
    \/ Invoke(Main)
    \/ \E c \in Contexts, tsinfo \in AnyInfo : InterpCall_call(Main, c, tsinfo)
    \/ InterpCall_body(Main)
    \/ InterpCall_back(Main)
    \/ CallReturn(Main)
    \/ SwitchCheck(Main)
    \/ SwitchEnsure(Main)
    \/ SwitchBack(Main)
    \/ Finish(Main)

SpecOld == InitProxy /\ [][NextOld]_vars

\* The host's command callbacks and the plugin's de-initialisation, with the
\* hook callbacks of plugin p1: the steps of the main thread.
EntrySteps ==
    \/ HookCallback("p1")
    \/ Invoke(Main)
    \/ CallReturn(Main)
    \/ load_plugin_callback(Main)
    \/ \E ispy \in BOOLEAN : load_plugin_test(Main, ispy)
    \/ \E found \in BOOLEAN : load_plugin(Main, found)
    \/ Py_NewInterpreter(Main)
    \/ \E ret \in ConfigResults : create_interp_callback(Main, ret)
    \/ create_interp_deleted(Main)
    \/ create_interp_swap(Main)
    \/ create_interp_return(Main)
    \/ unload_plugin_callback(Main)
    \/ reload_plugin_callback(Main)
    \/ mpy_callback(Main)
    \/ \E cmd \in MpyCommands : mpy_command(Main, cmd)
    \/ unload_plugin(Main)
    \/ DeleteBody(Main)
    \/ unload_plugin_free(Main)
    \/ hexchat_plugin_deinit(Main)
    \/ deinit_switch(Main)
    \/ Py_FinalizeEx(Main)
    \/ SwitchCheck(Main)
    \/ SwitchEnsure(Main)
    \/ SwitchBack(Main)
    \/ CallbackFinish(Main)

\* With one worker thread of p1.
NextEntry ==
    \/ \E t \in Threads : Yield(t)
    \/ \E t \in Threads : Resume(t)
    \/ \E t \in Workers : WorkerExit(t)
    \/ EntrySteps

SpecEntry == Init /\ [][NextEntry]_vars

\* The main thread alone, with the runtime state before each open
\* switch_threadstate() call kept in before.
InitLoad ==
    /\ InitCommon
    /\ gil = NoThread
    /\ cur = NULL
    /\ pc = [t \in Threads |-> IF t = Main THEN "idle" ELSE "exited"]
    /\ saved = [t \in Threads |-> NULL]
    /\ before = NoHistory(TRUE)

SpecLoad == InitLoad /\ [][EntrySteps]_vars

\* The console: the user enters lines and empty lines in the console window;
\* the host, alone on its main thread, calls the console's callbacks.
NextConsole ==
    \/ \E l \in Lines : python_command_callback(l)
    \/ keypress_callback
    \/ SwitchCheck(Main)
    \/ SwitchEnsure(Main)
    \/ \E run \in {0, -1} : exec_console_command(Main, run)
    \/ SwitchBack(Main)
    \/ Finish(Main)

SpecConsole == InitLoad /\ [][NextConsole]_vars

\* The results of hook callbacks: the host, alone on its main thread, calls
\* hook callbacks of every kind, and the Python callback gives back any of
\* PyReturns; the runtime state before each switch is recorded.
NextRet ==
    \/ \E ver \in Versions : hc_callback(ver)
    \/ SwitchCheck(Main)
    \/ SwitchEnsure(Main)
    \/ Invoke(Main)
    \/ \E r \in PyReturns : \E bits \in LongWidths :
           callback_return(Main, r, bits)
    \/ SwitchBack(Main)
    \/ Finish(Main)

SpecRet == InitLoad /\ [][NextRet]_vars

\* ---------------------------------------------- the sequential protocol
\* One thread, alone, makes properly nested switch_threadstate() /
\* switch_threadstate_back() calls with arbitrary targets.  It is the host
\* main thread coming from the host's event loop, or a worker thread that
\* runs script code (and so owns the lock) in its own thread state.
InitNest ==
    /\ InitCommon
    /\ saved = [t \in Threads |-> NULL]
    /\ before = NoHistory(TRUE)
    /\ \/ /\ gil = NoThread
          /\ cur = NULL
          /\ pc = [t \in Threads |-> IF t = Main THEN "idle" ELSE "exited"]
       \/ /\ gil = "w1"
          /\ cur = WorkerTS("w1")
          /\ pc = [t \in Threads |-> IF t = Main THEN "idle"
                                     ELSE IF t = "w1" THEN "py" ELSE "exited"]

Alone(t) == \A u \in Threads \ {t} : pc[u] \in {"idle", "exited"}

NestedHook(p) == Alone(Main) /\ HookCallback(p)

NestedInterpCall(t, c) == Alone(t) /\ InterpCall(t, c, MaxNest)

NextNest ==
    \/ \E p \in PluginTS : NestedHook(p)
    \/ \E t \in Threads : \E c \in Contexts : NestedInterpCall(t, c)
    \/ \E t \in Threads : SwitchCheck(t)
    \/ \E t \in Threads : SwitchEnsure(t)
    \/ \E t \in Threads : Invoke(t)
    \/ \E t \in Threads : CallReturn(t)
    \/ \E t \in Threads : SwitchBack(t)
    \/ \E t \in Threads : Finish(t)

SpecNest == InitNest /\ [][NextNest]_vars

\* ================================================================ claims
\* A thread is between the return of switch_threadstate() and the end of the
\* matching switch_threadstate_back(), and is not parked by the runtime.
Entered(t) == stack[t] # <<>> /\ pc[t] \in {"entered", "py", "back"}

\* C1: whenever switch_threadstate() has returned to a thread, that thread
\* holds the global lock, so no two threads are between an enter and its
\* leave at the same instant.
C1_MutualExclusion ==
    /\ \A t \in Threads : Entered(t) => gil = t
    /\ \A t, u \in Threads : Entered(t) /\ Entered(u) => t = u

\* C2: each switch_threadstate_back() of a properly nested sequence puts the
\* active context, the lock's owner and the lock-held flag back to what
\* they were just before the matching switch_threadstate(); it releases
\* only if that call acquired and swaps back only if that call swapped.
C2_BackRestores ==
    [][\A t \in Threads :
         (pc[t] = "back" /\ pc'[t] = "after") =>
             LET b == before.snaps[t][Len(stack[t])]
                 f == Top(t)
             IN /\ cur' = b.cur
                /\ gil' = b.gil
                /\ py_main_has_gil' = b.flag
                /\ (gil' # gil \/ py_main_has_gil' # py_main_has_gil)
                       => f.do_release = 1
                /\ (f.do_release = 1) <=> (b.flag = 0)
                /\ (f.do_swap = 1) <=> (b.cur # f.target)]_vars

C2_Witness ==
    \E t \in Threads :
        /\ pc[t] = "after"
        /\ Len(stack[t]) >= 2
        /\ Top(t).do_swap = 1
        /\ Top(t).do_release = 0
        /\ cur = before.snaps[t][Len(stack[t])].cur

\* The frame on top of t's stack asks for the context its caller is in.
SameTargetNested(t) ==
    /\ Len(stack[t]) >= 2
    /\ Top(t).target = stack[t][Len(stack[t]) - 1].target

\* C3: enter(A), enter(A), leave, leave on one thread: the inner enter
\* neither acquires the lock nor swaps, the inner leave releases nothing and
\* changes nothing, and the outer leave puts the lock state and the active
\* context back to what they were before the first enter.
C3_ReentrantSameContext ==
    [][\A t \in Threads :
         /\ (SameTargetNested(t) /\ pc[t] = "entered") =>
                Top(t).do_release = 0 /\ Top(t).do_swap = 0
         /\ (SameTargetNested(t) /\ pc[t] = "back" /\ pc'[t] = "after") =>
                UNCHANGED <<gil, cur, py_main_has_gil, py_gilstate>>
         /\ (Len(stack[t]) = 1 /\ pc[t] = "back" /\ pc'[t] = "after") =>
                /\ cur' = before.snaps[t][1].cur
                /\ gil' = before.snaps[t][1].gil
                /\ py_main_has_gil' = before.snaps[t][1].flag]_vars

C3_Witness ==
    \E t \in Threads :
        /\ SameTargetNested(t)
        /\ pc[t] = "after"
        /\ Top(t).do_release = 0
        /\ Top(t).do_swap = 0
        /\ cur = Top(t).target

\* ------------------------------------------------------- dispatcher claims
CallIds == 1..Len(calls)

\* The calls made by a thread other than the host main thread.
FromWorker(id) == calls[id].caller # Main

Executions(id) == {i \in DOMAIN execLog : execLog[i].id = id}

InTimers(id) == \E i \in DOMAIN timers : timers[i] = id

\* The host main thread is inside the timer callback of call id.
Running(id) ==
    \E i \in DOMAIN stack[Main] :
        stack[Main][i].kind = "timer" /\ stack[Main][i].id = id

\* What the caller of call id is owed: the callable's outcome, a Context
\* coming back inside the proxy the dispatcher hands out.
Outcome(id) ==
    LET out == Apply(calls[id].callable, calls[id].args)
    IN IF out.status = 0
       THEN [status |-> 0, payload |-> DelegateWrap(out.payload, FALSE)]
       ELSE [status |-> -1, payload |-> out.payload]

\* C4: a synchronous Delegate call from a non-main thread has returned only
\* after the main thread's pump ran its timer callback, and the callable of
\* a call from a non-main thread is executed only on the main thread, from
\* the timer callback, never on the calling thread.
C4_RunsOnMainAfterPump ==
    /\ \A i \in DOMAIN execLog :
           FromWorker(execLog[i].id) =>
               execLog[i].thread = Main /\ execLog[i].queued
    /\ \A id \in CallIds :
           (FromWorker(id) /\ ~calls[id].is_async /\ got[id] # Pending) =>
               posted[id] > 0

C9_NeverAfterDestroy ==
    \A i \in DOMAIN execLog : execLog[i].queued => execLog[i].alive

C11_HostApiOnMainOnly == \A h \in hostCalls : h.thread = Main

\* C12: a Delegate called on the host main thread runs the callable at
\* once and queues no timer; when asynchronous, its AsyncResult is resolved
\* on return, not bound to a channel, and the main thread never blocks in a
\* receive.
C12_MainThreadImmediate ==
    /\ \A id \in CallIds :
           calls[id].caller = Main =>
               /\ ~calls[id].queued
               /\ \E i \in Executions(id) : execLog[i].thread = Main
               /\ calls[id].is_async =>
                      ares[id].done = 1 /\ ~ares[id].bound
    /\ pc[Main] \notin {"qget", "arget"}

\* The callable of call id raises.
Raises(id) == Apply(calls[id].callable, calls[id].args).status = -1

\* The AsyncResult of call id has its outcome: it was set by the
\* main-thread branch, or a read has received the record.
Resolved(id) ==
    /\ ares[id].exists
    /\ ares[id].bound => posted[id] > 0 /\ queue[id] = <<>>

Fields == {"result", "error"}

LastReturned(h, f) == IF f = "result" THEN h.result ELSE h.error

\* C14: over any sequence of reads of result and error on one AsyncResult
\* the channel is received from at most once, and a read of a field returns
\* the value the previous read of that field returned.
C14_ReadsIdempotent ==
    /\ [](\A id \in CallIds : readHist[id].gets <= 1)
    /\ [][\A id \in CallIds : \A f \in Fields :
             LastReturned(readHist[id], f) # Unread =>
                 LastReturned(readHist'[id], f) = LastReturned(readHist[id], f)
         ]_vars

\* C15: once the done flag of an AsyncResult is set, its result and error
\* fields never change again.
C15_DoneFreezesFields ==
    [][\A id \in CallIds :
         (ares[id].exists /\ ares[id].done = 1) =>
             /\ ares'[id].result = ares[id].result
             /\ ares'[id].error = ares[id].error]_vars

\* C16: no read of result or error on an AsyncResult bound to a channel
\* returns before the main thread has posted the record, also when another
\* read of the same AsyncResult is still blocked in the receive.
C16_NoReadBeforeRecord ==
    \A t \in Threads :
        (pc[t] = "read" /\ ares[lastRead[t].id].bound) =>
            posted[lastRead[t].id] > 0

\* The number of records taken from the channel of call id.
Received(id) == posted[id] - Len(queue[id])

\* C17: an AsyncResult is resolved once, by one set_result, one set_error
\* or one channel receive and never by two of them: a bound one is
\* untouched until its single receive, an unbound one is set when it is
\* made and never received for, once a field is set no field changes, and
\* at most one of result and error is not None.
C17_ResolvedOnce ==
    /\ [](\A id \in CallIds :
             ares[id].exists =>
                 /\ readHist[id].gets <= 1 /\ Received(id) <= 1
                 /\ ares[id].bound =>
                        (Received(id) = 0 =>
                             ares[id].result = None /\ ares[id].error = None)
                 /\ ~ares[id].bound =>
                        /\ readHist[id].gets = 0 /\ ares[id].done = 1
                        /\ Raises(id) <=> ares[id].error # None
                 /\ ares[id].result = None \/ ares[id].error = None)
    /\ [][\A id \in CallIds :
             (ares[id].result # None \/ ares[id].error # None) =>
                 ares'[id].result = ares[id].result /\
                 ares'[id].error = ares[id].error]_vars

C17_Witness ==
    \E id, other \in CallIds :
        /\ ares[id].exists /\ ~ares[id].bound /\ ares[id].result # None
        /\ ares[other].bound /\ Received(other) = 1
        /\ ares[other].error # None /\ ares[other].result = None

\* The interpreter thread state ts belongs to has been ended.
Destroyed(ts) == ts \notin {NULL, MainTS} /\ interp[HomeOf(ts)] = "destroyed"

\* C18: a context only moves forward, from Active through its teardown to
\* Destroyed: it is destroyed only by the delete_interp() call made for it,
\* a destroyed context stays destroyed, and no thread state of a destroyed
\* context is ever made current again (no hook, timer callback or proxy call
\* enters it).
C18_ForwardOnly ==
    /\ [](~Destroyed(cur))
    /\ [][\A p \in PluginTS :
             /\ interp[p] = "destroyed" => interp'[p] = "destroyed"
             /\ (interp[p] = "active" /\ interp'[p] = "destroyed") =>
                    \E t \in Threads : /\ stack[t] # <<>>
                                       /\ Top(t).kind = "delete"
                                       /\ Top(t).target = p]_vars

\* The unload callbacks invoked so far, in the order of their invocation.
InvokedHooks ==
    LET inv == SelectSeq(tdlog, LAMBDA e : e.ev = "unload")
    IN [j \in 1..Len(inv) |-> inv[j].n]

IsPrefix(a, b) == Len(a) <= Len(b) /\ \A j \in 1..Len(a) : a[j] = b[j]

\* Has the teardown made step ev?
Logged(ev) == \E j \in DOMAIN tdlog : tdlog[j].ev = ev

\* C19: delete_interp() invokes every unload callback that was registered
\* when it began, in registration order, also after one of them has raised;
\* the error of a raising callback is printed and the loop goes on; the
\* teardown is never aborted, and when the interpreter has been ended every
\* callback has been invoked and the private store has been released.
C19_AllUnloadCallbacksRun ==
    /\ pc[Main] # "crashed"
    /\ IsPrefix(InvokedHooks, del.hooks0)
    /\ \A j \in DOMAIN tdlog :
           (tdlog[j].ev = "unload" /\ registered[tdlog[j].n] = "raises") =>
               /\ j < Len(tdlog)
               /\ tdlog[j + 1] = Ev("print", tdlog[j].n)
    /\ Logged("end") => InvokedHooks = del.hooks0 /\ Logged("store")
    /\ interp["p1"] = "destroyed" <=> Logged("end")

\* C20: in a teardown the unload callbacks come first, then the release of
\* the private store, which runs the destructors of the hook capsules, then
\* the end of the interpreter: no unload callback runs once the store has
\* been released, the store is released once and before the interpreter is
\* ended, no capsule destructor runs before the release, and nothing of the
\* teardown happens after the interpreter has been ended.
C20_TeardownOrder ==
    \A i, j \in DOMAIN tdlog :
        /\ (tdlog[i].ev = "store" /\ tdlog[j].ev \in {"unload", "print"}) =>
               j < i
        /\ (tdlog[i].ev = "store" /\ tdlog[j].ev = "store") => i = j
        /\ (tdlog[i].ev = "store" /\ tdlog[j].ev = "free") => i < j
        /\ tdlog[j].ev = "free" => Logged("store")
        /\ tdlog[i].ev = "end" => i = Len(tdlog) /\ Logged("store")

\* A teardown that ran two unload callbacks, one of which raised, released
\* the store with a capsule destructor and ended the interpreter.
C20_Witness ==
    /\ Logged("end") /\ Logged("print") /\ Logged("free")
    /\ Len(InvokedHooks) = 2
    /\ pc[Main] = "idle"

\* ---------------------------------------------------------------- proxies
\* C21: every read of an attribute whose value is not a primitive returns
\* the object the first read of that attribute through the same proxy
\* returned, however many reads of it and of other attributes came in
\* between; in particular every such read returns.
C21_IdentityStable ==
    /\ op.kind \in {"getattr", "dgetattr"} => op.stage # "crashed"
    /\ (/\ op.kind \in {"getattr", "dgetattr"}
        /\ op.stage = "done"
        /\ op.raw # 0
        /\ ~interp_is_primitive(heap[op.raw])) =>
           \E g \in gets : /\ g.proxy = op.proxy
                           /\ g.name = op.name
                           /\ g.out = op.out

\* The positions of a sequence of values that the argument loops must hand
\* over as they are, as an InterpCall, or as an InterpObjProxy.
IsPrimitiveAt(a) == interp_is_primitive(heap[a])

\* The calls the claims below are about: a call through an InterpCall
\* object that has got past its argument loops.
InCallProxy ==
    /\ op.kind = "call"
    /\ op.stage \in {"begun", "fetched", "done"}
    /\ heap[op.proxy].kind = "icall"

\* A call through an InterpCall object, at any stage.
CallProxyCall == op.kind = "call" /\ heap[op.proxy].kind = "icall"

\* The keyword argument k of the call in progress, as the target got it:
\* the set of values received under that key.
RecvKw(k) == {op.recvkw[i].val : i \in {n \in DOMAIN op.recvkw :
                                            op.recvkw[n].key = k}}

\* C22: an integer, string, boolean or None that goes through a call of an
\* InterpCall object arrives as the very object that was passed: as
\* positional argument, as keyword argument and as return value; the call
\* gets past its argument loops.
C22_PrimitivesPassThrough ==
    /\ CallProxyCall => op.stage # "crashed"
    /\ InCallProxy =>
           /\ \A i \in DOMAIN op.args :
                  IsPrimitiveAt(op.args[i]) => op.recv[i] = op.args[i]
           /\ \A k \in DOMAIN op.kwargs :
                  IsPrimitiveAt(op.kwargs[k]) => RecvKw(k) = {op.kwargs[k]}
           /\ (op.stage = "done" /\ op.raw # 0 /\ IsPrimitiveAt(op.raw)) =>
                  op.out = op.raw

\* What the value a must be handed over as, when it crosses into or out of
\* the context named by ts: itself when it is a proxy or a primitive, else
\* an InterpCall of it when it is callable, else an InterpObjProxy of it,
\* bound to ts.
CrossesAs(a, r, ts) ==
    IF IsInterpProxy(heap[a]) \/ IsPrimitiveAt(a) THEN r = a
    ELSE /\ heap[r].kind = (IF heap[a].kind = "func" THEN "icall"
                            ELSE "oproxy")
         /\ heap[r].ref = a
         /\ heap[r].ts = ts

\* C23: in a call of an InterpCall object every argument that is neither a
\* primitive nor a proxy reaches the target wrapped in a proxy bound to the
\* caller's context, the return value comes back wrapped in a proxy bound
\* to the target context, callables as InterpCall and other values as
\* InterpObjProxy, and a value that is a proxy already is handed over as
\* it is.  (Keyword arguments: those the target receives.)
C23_WrappedAtBoundary ==
    InCallProxy =>
           /\ \A i \in DOMAIN op.args :
                  CrossesAs(op.args[i], op.recv[i], op.caller)
           /\ \A n \in DOMAIN op.recvkw :
                  CrossesAs(op.kwargs[op.recvkw[n].key], op.recvkw[n].val,
                            op.caller)
           /\ (op.stage = "done" /\ op.raw # 0) =>
                  CrossesAs(op.raw, op.out, heap[op.proxy].ts)

\* A completed attribute read through an InterpObjProxy that found a value
\* that is not a primitive.
ReadNonPrimitive ==
    /\ op.kind = "getattr"
    /\ op.stage = "done"
    /\ op.raw # 0
    /\ ~IsPrimitiveAt(op.raw)

\* C24: an attribute read through an InterpObjProxy returns an InterpCall
\* of the value when the value is callable and an InterpObjProxy of it when
\* it is any other non-primitive, bound in both cases to the thread state
\* the proxy is bound to.
C24_CallableAttrIsCallProxy ==
    ReadNonPrimitive =>
        /\ heap[op.out].kind = (IF PyCallable_Check(heap[op.raw])
                                THEN "icall" ELSE "oproxy")
        /\ heap[op.out].ref = op.raw
        /\ heap[op.out].ts = heap[op.proxy].ts

\* The thread states that have an exception pending.
PendingIn == {ts \in ThreadStates : pyerr[ts] # "none"}

\* The runtime as the script's hook callback has it while it runs: the main
\* thread owns the lock, the flag is set and ts is current.
RunsIn(ts) == cur = ts /\ gil = Main /\ py_main_has_gil = 1

\* C25: when the callable of an InterpCall or InterpObjProxy raises, the
\* exception is taken out of the target's thread state before the switch
\* back, so that nothing is pending anywhere until the caller's context is
\* current again; the call then ends with the caller's context current, the
\* lock state the caller had, the exception pending in the caller's thread
\* state and nowhere else, NULL as its result and no proxy made for a
\* return value.
C25_ErrorRaisedInCaller ==
    /\ (op.kind = "call" /\ op.stage \in {"begun", "fetched"}) =>
           PendingIn = {}
    /\ (op.kind = "call" /\ op.stage = "done" /\ op.raw = 0) =>
           /\ RunsIn(op.caller)
           /\ PendingIn = {op.caller}
           /\ pyerr[op.caller] = op.exc
           /\ op.out = 0
           /\ Len(heap) = op.nobj

\* The function read through an InterpObjProxy of the main interpreter's
\* namespace was called and raised E; the script has the exception.
C25_Witness ==
    /\ op.kind = "call" /\ op.stage = "done" /\ op.raw = 0
    /\ op.exc = "E"
    /\ heap[op.proxy].kind = "oproxy"
    /\ heap[op.proxy].ts # op.caller
    /\ pyerr[op.caller] = "E"

\* C26: a read of a name the wrapped object does not have ends with
\* AttributeError pending in the caller's thread state, the proxy's cache
\* as it was before the read and the caller's context current.
C26_MissingAttribute ==
    (op.kind = "getattr" /\ op.stage = "done" /\ op.raw = 0) =>
        /\ pyerr[op.caller] = "AttributeError"
        /\ PendingIn = {op.caller}
        /\ cache[op.proxy] = op.before
        /\ Len(heap) = op.nobj
        /\ RunsIn(op.caller)

\* A read of a missing name through a proxy whose cache holds entries from
\* earlier reads.
C26_Witness ==
    /\ op.kind = "getattr" /\ op.stage = "done" /\ op.raw = 0
    /\ op.name = "zz"
    /\ op.before # {}
    /\ heap[op.proxy].ts # op.caller
    /\ pyerr[op.caller] = "AttributeError"

\* A comparison the script made between two proxies of one proxy type.
ComparedProxies ==
    /\ op.kind = "cmp"
    /\ heap[op.raw].kind = heap[op.proxy].kind

\* C27: two proxies of one type compare equal exactly when the objects they
\* wrap compare equal, in both orders; two proxies that compare equal have
\* the same hash; and a proxy does not compare equal to the object it
\* wraps, in either order.
C27_ProxyEquality ==
    op.kind = "cmp" =>
        LET a == op.proxy
            b == op.raw
        IN /\ (ComparedProxies /\ heap[heap[a].ref].kind \notin CmpTypes
                               /\ heap[heap[b].ref].kind \notin CmpTypes) =>
                  (op.res.eq <=> heap[heap[a].ref].eq = heap[heap[b].ref].eq)
           /\ ComparedProxies => (op.res.eq <=> op.res.rev)
           /\ (ComparedProxies /\ op.res.eq) => op.res.ha = op.res.hb
           /\ b = heap[a].ref => ~op.res.eq /\ ~op.res.rev

\* Two InterpObjProxy objects of two tuples that are equal were compared:
\* they are equal and have the same hash.
C27_Witness ==
    /\ ComparedProxies
    /\ heap[op.proxy].kind = "oproxy"
    /\ op.proxy # op.raw
    /\ heap[op.proxy].ref # heap[op.raw].ref
    /\ op.res.eq
    /\ op.res.ha.ok
    /\ op.res.ha = op.res.hb

\* C28: the switch_threadstate_back() call that ends a switch is passed the
\* SwitchTSInfo that the switch_threadstate() call of the same function
\* returned: whenever a function is about to switch back, or has just done
\* so, the value it passes is the one its switch returned.
C28_BackGetsOwnInfo ==
    \A t \in Threads :
        (pc[t] \in {"back0", "after"} /\ Top(t).kind = "icall0") =>
            op.tsinfo = InfoOf(Top(t))

\* The main thread is at interpreter operations of a host-invoked entry
\* point: making and releasing objects, the plugin list, script code.
InterpreterOps(t) ==
    \/ pc[t] \in {"unload_plugin", "load_plugin", "entered", "py"}
    \/ pc[t] = "after" /\ stack[t] # <<>> /\ Top(t).kind = "delete"

\* C29: every host-invoked entry point performs its interpreter operations
\* only while the main thread holds the global execution lock, between a
\* switch_threadstate() and its switch_threadstate_back().
C29_EntryPointsHoldLock ==
    InterpreterOps(Main) =>
        /\ gil = Main
        /\ py_main_has_gil = 1
        /\ \E i \in 1..Len(stack[Main]) : stack[Main][i].kind # "delete"

\* The host functions reached only through guarded module functions and
\* Context methods in these scripts.
GuardedHostCalls == {"print", "set_context"}

\* C30: a direct call of a guarded hexchat function or Context method from
\* a thread other than the main thread fails before any host API call is
\* made and leaves the host's current context unchanged: the host's print
\* and set-context functions are only ever called by the main thread.
C30_GuardedCallFailsOffMain ==
    \A h \in hostCalls : h.fn \in GuardedHostCalls => h.thread = Main

\* C31: a proxy's attribute cache is read and written only while the
\* proxy's target context is entered: every step that changes the cache of
\* a proxy bound to a context is taken with that context current.
C31_CacheMutatedInTarget ==
    [][\A a \in 1..MaxObjs :
           (a <= Len(heap) /\ cache'[a] # cache[a]) => cur = heap[a].ts]_vars

\* C32: the main thread posts the record of a queued invocation only after
\* it has left the invocation's target context: no record of a call is on
\* its channel, or was received from it, while the main thread is still
\* inside that call's timer callback, before its switch_threadstate_back().
C32_PostedAfterLeaving ==
    \A id \in CallIds :
        (posted[id] > 0 /\ Running(id)) => pc[Main] = "after"

\* The proxy type, the object and the bound context a value crosses as.
Outcome3(w) ==
    [kind |-> w.heap[w.out].kind, ref |-> w.heap[w.out].ref,
     ts |-> w.heap[w.out].ts]

\* The other of the two proxy types a call can go through.
OtherProxy(kind) == IF kind = "icall" THEN "oproxy" ELSE "icall"

\* C33: invoking a callable through an InterpObjProxy gives the same
\* pass-through or wrapping outcome (proxy type and bound context) as
\* invoking it through an InterpCall: every positional argument of a call
\* in progress has reached the target, and its return value has come back,
\* as the rules of the other proxy type would have handed it over.
C33_SameWrappingRules ==
    (op.kind = "call" /\ op.stage \in {"begun", "fetched", "done"}) =>
        LET other == OtherProxy(heap[op.proxy].kind) IN
        /\ \A i \in DOMAIN op.args :
               Outcome3([heap |-> heap, out |-> op.recv[i]])
                   = Outcome3(WrapArg(heap, op.args[i], op.caller, other))
        /\ (op.stage = "done" /\ op.raw # 0) =>
               Outcome3([heap |-> heap, out |-> op.out])
                   = Outcome3(WrapRet(heap, op.raw, heap[op.proxy].ts, other))

\* create_interp() has made its switch_threadstate_back() and is about to
\* return, its configuration step having failed.
LoadFailed ==
    /\ pc[Main] = "after"
    /\ Top(Main).kind = "create"
    /\ interp["p1"] # "active"

C35_UnhookedOnce ==
    \A h \in DOMAIN hookData :
        /\ hookData[h].unhooks <= 1
        /\ hookData[h].late = 0

\* The script unhooked hook h itself and then dropped its handle, so the
\* capsule's destructor ran after the explicit unhook.
C35_Witness ==
    \E h \in DOMAIN hookData :
        /\ hookData[h].freed
        /\ hookData[h].unhooks = 1
        /\ ~hookRefs[h]
        /\ interp["p1"] = "active"

\* C36: during delete_interp() the loop never reads past the end of the
\* unload-hook list, no unload callback is invoked twice, and once the loop
\* is over every callback that was in the list when teardown began, and was
\* not unhooked before its turn, has been invoked exactly once; this also
\* with callbacks that unhook unload hooks while teardown is in progress.
C36_EachUnloadHookOnce ==
    LET Times(k) == Cardinality({j \in DOMAIN tdlog :
                                    tdlog[j] = Ev("unload", k)})
    IN /\ pc[Main] # "crashed"
       /\ \A k \in DOMAIN registered : Times(k) <= 1
       /\ Logged("store") =>
              \A j \in DOMAIN del.hooks0 : Times(del.hooks0[j]) = 1

\* C37: the host main thread never waits, in the receive of an AsyncResult
\* read or of a synchronous Delegate call, for the record of an invocation
\* whose timer is still queued: only the main thread's own event loop could
\* run that timer and post the record.
C37_MainNeverWaitsOnQueued ==
    pc[Main] \in {"qget", "arget"} => ~InTimers(wait[Main])

\* Is n a result the host accepts from a callback of kind ver?
InRange(ver, n) ==
    IF ver = "CBV_TIMER" THEN n \in {0, 1}
    ELSE HEXCHAT_EAT_NONE <= n /\ n <= HEXCHAT_EAT_ALL

\* hc_all_callback_inner() is about to return to the host.
CallbackDone ==
    /\ pc[Main] = "after"
    /\ Top(Main).kind = "hook"
    /\ cbret.ret.kind # "none"

\* C38: a hook callback returns to the host a value in the valid range
\* (EAT_NONE to EAT_ALL for event hooks, 0 or 1 for timers); when the Python
\* callback raised, or returned no integer or an integer out of that range,
\* the value is EAT_NONE (0 for timers); and the active context and the
\* lock state are then what they were before the callback.
C38_CallbackResultValid ==
    CallbackDone =>
        /\ InRange(cbret.ver, cbret.retval)
        /\ ~(cbret.ret.kind = "int" /\ cbret.ret.hi = 0
                /\ InRange(cbret.ver, cbret.ret.lo)) =>
               cbret.retval = HEXCHAT_EAT_NONE
        /\ Snapshot = before.snaps[Main][Len(stack[Main])]

\* exec_console_command() has returned to the console callback.
ConsoleReturned == pc[Main] = "after" /\ Top(Main).kind = "console"

\* C39: after every call of exec_console_command() has returned, the
\* console's continuation mode is 0 or 1, never 2, and when it is 0 the
\* pending script buffer is empty.
C39_ContmodeAfterExec ==
    ConsoleReturned =>
        /\ console.contmode \in {0, 1}
        /\ console.contmode = 0 => console.scriptbuf = <<>>

\* C40: for a proxy a and any operand b, a != b is the negation of a == b;
\* when b is not a proxy, a == b is False and a != b is True.
C40_NeNegatesEq ==
    op.kind = "cmp" =>
        /\ op.res.ne <=> ~op.res.eq
        /\ heap[op.raw].kind \notin CmpTypes => ~op.res.eq /\ op.res.ne

====
